---------------------------- MODULE Spec2Model ----------------------------
(***************************************************************************)
(* A model of the GIF codec of gif.py: the container parser (read_gif),    *)
(* the LZW decoder (lzw_bytes_to_codes / lzw_decode), the LZW encoder      *)
(* (lzw_encode / lzw_codes_to_bytes), the container writer (write_gif)     *)
(* and the two drivers decode_gif and encode_gif.                          *)
(*                                                                         *)
(* Bytes are integers 0..255, byte strings are sequences of bytes.  A file *)
(* handle is the pair (byte string, position); positions are 0-based as in *)
(* the source, sequences 1-based as in TLA+.                               *)
(***************************************************************************)
EXTENDS Integers, Sequences, FiniteSets, TLC

(***************************************************************************)
(* Bounds of the model.                                                    *)
(***************************************************************************)
\* longest exhaustively enumerated raster (pixels) given to the encoder
MaxPixels == 3
\* number of distinct colours in the exhaustively enumerated rasters
NumColors == 2
\* largest width argument tried with the enumerated rasters
MaxWidth == 2
\* side of the largest solid square image
MaxSide == 8
\* tallest image of one column
MaxRows == 9
\* longest enumerated sequence of LZW codes in a GIF given to the decoder
MaxCodes == 3
\* longest enumerated sequence of blocks before the image
MaxBlocks == 2
\* number of codec passes chained on one input (encode, decode, encode, ...)
MaxPasses == 3

(***************************************************************************)
(* Arithmetic and byte-string helpers.                                     *)
(***************************************************************************)
Pow2(n) == 2 ^ n

Min(a, b) == IF a < b THEN a ELSE b

Max(a, b) == IF a > b THEN a ELSE b

\* data[from:to] of Python (0-based, end exclusive, clipped to the string)
Slice(data, from, to) ==
    LET hi == Min(to, Len(data))
    IN  IF from >= hi THEN << >> ELSE SubSeq(data, from + 1, hi)

\* the bytes of an ASCII text used by the format
GIF == <<71, 73, 70>>
V87a == <<56, 55, 97>>
V89a == <<56, 57, 97>>
Comma == 44
Bang == 33
Semicolon == 59

\* little-endian 16-bit pack/unpack of struct ("<H")
U16(lo, hi) == lo + 256 * hi

PackU16(n) == <<n % 256, (n \div 256) % 256>>

\* n zero bytes
Zeros(n) == [i \in 1..n |-> 0]

(***************************************************************************)
(* Error kinds.  The GifError kinds carry the message of the source; the   *)
(* others are Python exceptions that escape decode_gif / encode_gif.       *)
(***************************************************************************)
NoError == "none"
Truncated == "unexpected end of file"
NotGif == "not a GIF file"
ImageAreaZero == "image area zero"
BadLzwMinCodeSize == "invalid LZW palette bit depth"
BadBlockType == "invalid block type"
BadExtension == "invalid Extension label"
NoImage == "no images"
NoPalette == "no palette"
BadCode == "invalid LZW code"
BadIndex == "invalid index in image data"
TooManyColors == "too many colors"
BadRgbSize == "invalid file size"
ValueError == "ValueError"
IndexError == "IndexError"
KeyError == "KeyError"

GifErrors ==
    {Truncated, NotGif, ImageAreaZero, BadLzwMinCodeSize, BadBlockType,
     BadExtension, NoImage, NoPalette, BadCode, BadIndex}

RgbErrors == {TooManyColors, BadRgbSize}

None == -1

(***************************************************************************)
(* File access (gif.py 76-103).  A result is a record with field err; pos  *)
(* is the handle position after the call.                                  *)
(***************************************************************************)
\* handle.read(length): the bytes from pos, fewer at the end of the file
HandleRead(data, pos, length) == Slice(data, pos, pos + length)

read_bytes(data, pos, length) ==
    LET got == HandleRead(data, pos, length)
    IN  IF Len(got) < length
        THEN [err |-> Truncated, pos |-> pos + Len(got), bytes |-> got]
        ELSE [err |-> NoError, pos |-> pos + length, bytes |-> got]

\* handle.seek(length, 1) moves the position also past the end of the file,
\* so that tell() - origPos is always length
skip_bytes(data, pos, length) ==
    LET origPos == pos
        tell == pos + length
    IN  IF tell - origPos < length
        THEN [err |-> Truncated, pos |-> tell]
        ELSE [err |-> NoError, pos |-> tell]

\* the loop of read_subblocks from the state (position, size of the next
\* subblock, bytes collected so far)
RECURSIVE read_subblocks_loop(_, _, _, _)
read_subblocks_loop(data, pos, sbSize, acc) ==
    IF sbSize = 0
    THEN [err |-> NoError, pos |-> pos, bytes |-> acc]
    ELSE LET chunk == read_bytes(data, pos, sbSize + 1)
         IN  IF chunk.err # NoError
             THEN [err |-> chunk.err, pos |-> chunk.pos, bytes |-> acc]
             ELSE read_subblocks_loop(data, chunk.pos,
                                      chunk.bytes[sbSize + 1],
                                      acc \o SubSeq(chunk.bytes, 1, sbSize))

\* b"".join(read_subblocks(handle))
read_subblocks(data, pos) ==
    LET first == read_bytes(data, pos, 1)
    IN  IF first.err # NoError
        THEN [err |-> first.err, pos |-> first.pos, bytes |-> << >>]
        ELSE read_subblocks_loop(data, first.pos, first.bytes[1], << >>)

RECURSIVE skip_subblocks(_, _)
skip_subblocks(data, pos) ==
    LET size == read_bytes(data, pos, 1)
    IN  IF size.err # NoError
        THEN [err |-> size.err, pos |-> size.pos]
        ELSE IF size.bytes[1] = 0
        THEN [err |-> NoError, pos |-> size.pos]
        ELSE LET skipped == skip_bytes(data, size.pos, size.bytes[1])
             IN  IF skipped.err # NoError
                 THEN skipped
                 ELSE skip_subblocks(data, skipped.pos)

(***************************************************************************)
(* Container parser (gif.py 105-225).                                      *)
(***************************************************************************)
\* packedFields & 0x80, packedFields & 0x40, (packedFields & 7) + 1
HasTable(packedFields) == (packedFields \div 128) % 2 = 1

InterlaceFlag(packedFields) == (packedFields \div 64) % 2 = 1

TableBits(packedFields) == (packedFields % 8) + 1

NoInfo(e, p) ==
    [err |-> e, pos |-> p, width |-> 0, height |-> 0, interlace |-> FALSE,
     lctAddr |-> None, lctBits |-> None, lzwPalBits |-> 0, lzwAddr |-> None]

\* the range check of lzwPalBits in read_image_info
ValidLzwPalBits(lzwPalBits) == 2 <= lzwPalBits /\ lzwPalBits <= 11

\* pos is at the first byte after ','
read_image_info(data, pos) ==
    LET desc == read_bytes(data, pos, 9)
    IN  IF desc.err # NoError THEN NoInfo(desc.err, desc.pos) ELSE
        LET width == U16(desc.bytes[5], desc.bytes[6])
            height == U16(desc.bytes[7], desc.bytes[8])
            packedFields == desc.bytes[9]
        IN  IF Min(width, height) = 0
            THEN NoInfo(ImageAreaZero, desc.pos) ELSE
        LET hasLct == HasTable(packedFields)
            lctAddr == IF hasLct THEN desc.pos ELSE None
            lctBits == IF hasLct THEN TableBits(packedFields) ELSE None
            skipped == IF hasLct
                       THEN skip_bytes(data, desc.pos, Pow2(lctBits) * 3)
                       ELSE [err |-> NoError, pos |-> desc.pos]
        IN  IF skipped.err # NoError
            THEN NoInfo(skipped.err, skipped.pos) ELSE
        LET bits == read_bytes(data, skipped.pos, 1)
        IN  IF bits.err # NoError THEN NoInfo(bits.err, bits.pos) ELSE
            IF ~ValidLzwPalBits(bits.bytes[1])
            THEN NoInfo(BadLzwMinCodeSize, bits.pos)
            ELSE [err |-> NoError, pos |-> bits.pos,
                  width |-> width, height |-> height,
                  interlace |-> InterlaceFlag(packedFields),
                  lctAddr |-> lctAddr, lctBits |-> lctBits,
                  lzwPalBits |-> bits.bytes[1], lzwAddr |-> bits.pos]

\* a variant of BlockSizeLabels without the Plain Text Extension
BlockSizeLabelsNoPlainText == {249, 255}

\* the labels skip_extension_block accepts
BlockSizeLabels == {1, 249, 255}
CommentLabel == 254

\* pos is at the first byte after '!'
skip_extension_block(data, pos) ==
    LET label == read_bytes(data, pos, 1)
    IN  IF label.err # NoError
        THEN [err |-> label.err, pos |-> label.pos]
        ELSE IF label.bytes[1] \in BlockSizeLabels
        THEN LET size == read_bytes(data, label.pos, 1)
             IN  IF size.err # NoError
                 THEN [err |-> size.err, pos |-> size.pos]
                 ELSE LET skipped == skip_bytes(data, size.pos, size.bytes[1])
                      IN  IF skipped.err # NoError
                          THEN skipped
                          ELSE skip_subblocks(data, skipped.pos)
        ELSE IF label.bytes[1] = CommentLabel
        THEN skip_subblocks(data, label.pos)
        ELSE [err |-> BadExtension, pos |-> label.pos]

\* the block loop; the result NoInfo(NoImage, ..) stands for "return None"
RECURSIVE read_first_image_info(_, _)
read_first_image_info(data, pos) ==
    LET blockType == read_bytes(data, pos, 1)
    IN  IF blockType.err # NoError
        THEN NoInfo(blockType.err, blockType.pos)
        ELSE IF blockType.bytes[1] = Comma
        THEN read_image_info(data, blockType.pos)
        ELSE IF blockType.bytes[1] = Bang
        THEN LET ext == skip_extension_block(data, blockType.pos)
             IN  IF ext.err # NoError
                 THEN NoInfo(ext.err, ext.pos)
                 ELSE read_first_image_info(data, ext.pos)
        ELSE IF blockType.bytes[1] = Semicolon
        THEN NoInfo(NoImage, blockType.pos)
        ELSE NoInfo(BadBlockType, blockType.pos)

NoGif(e) ==
    [err |-> e, warning |-> FALSE, width |-> 0, height |-> 0,
     interlace |-> FALSE, palAddr |-> None, palBits |-> None,
     lzwPalBits |-> 0, lzwAddr |-> None]

\* a variant of IsGifMagic that takes every three bytes for the magic
IsGifMagicAny(id) == Len(id) = 3

\* the test of the header magic in read_gif
IsGifMagic(id) == id = GIF

\* the version test of read_gif: TRUE when the warning is printed
UnknownVersion(version) == version \notin {V87a, V89a}

\* a variant of PaletteChoice that prefers the GCT
PaletteChoiceGctFirst(gctAddr, gctBits, lctAddr, lctBits) ==
    IF gctAddr # None
    THEN [err |-> NoError, palAddr |-> gctAddr, palBits |-> gctBits]
    ELSE IF lctAddr = None
    THEN [err |-> NoPalette, palAddr |-> None, palBits |-> None]
    ELSE [err |-> NoError, palAddr |-> lctAddr, palBits |-> lctBits]

\* which of the two tables read_gif returns: the LCT when the image has one
PaletteChoice(gctAddr, gctBits, lctAddr, lctBits) ==
    IF lctAddr # None
    THEN [err |-> NoError, palAddr |-> lctAddr, palBits |-> lctBits]
    ELSE IF gctAddr = None
    THEN [err |-> NoPalette, palAddr |-> None, palBits |-> None]
    ELSE [err |-> NoError, palAddr |-> gctAddr, palBits |-> gctBits]

read_gif(data) ==
    LET head == read_bytes(data, 0, 13)
    IN  IF head.err # NoError THEN NoGif(head.err) ELSE
        LET id == SubSeq(head.bytes, 1, 3)
            version == SubSeq(head.bytes, 4, 6)
            packedFields == head.bytes[11]
        IN  IF ~IsGifMagic(id) THEN NoGif(NotGif) ELSE
        LET hasGct == HasTable(packedFields)
            gctAddr == IF hasGct THEN head.pos ELSE None
            gctBits == IF hasGct THEN TableBits(packedFields) ELSE None
            skipped == IF hasGct
                       THEN skip_bytes(data, head.pos, Pow2(gctBits) * 3)
                       ELSE [err |-> NoError, pos |-> head.pos]
        IN  IF skipped.err # NoError THEN NoGif(skipped.err) ELSE
        LET imageInfo == read_first_image_info(data, skipped.pos)
        IN  IF imageInfo.err # NoError THEN NoGif(imageInfo.err) ELSE
        LET pal == PaletteChoice(gctAddr, gctBits,
                                 imageInfo.lctAddr, imageInfo.lctBits)
        IN  IF pal.err # NoError THEN NoGif(pal.err) ELSE
            [err |-> NoError, warning |-> UnknownVersion(version),
             width |-> imageInfo.width, height |-> imageInfo.height,
             interlace |-> imageInfo.interlace,
             palAddr |-> pal.palAddr, palBits |-> pal.palBits,
             lzwPalBits |-> imageInfo.lzwPalBits,
             lzwAddr |-> imageInfo.lzwAddr]

(***************************************************************************)
(* LZW decoder, the code reader (gif.py 227-278).  lzw_bytes_to_codes is a *)
(* generator: gen holds its local variables between two yields.            *)
(***************************************************************************)
\* codes are at most 12 bits wide (2 ** 12 in gif.py 274, 277 and 455)
MaxCodeLen == 12

clearCode(palBits) == Pow2(palBits)

endCode(palBits) == Pow2(palBits) + 1

\* data[pos] | data[pos+1] << 8 | ... for count bytes; all of them exist
RECURSIVE CombineBytes(_, _, _)
CombineBytes(data, pos, count) ==
    IF count = 0 THEN 0
    ELSE data[pos + 1] + 256 * CombineBytes(data, pos + 1, count - 1)

\* a variant of BytesNeeded that asks for one byte more than the code has
BytesNeededOneMore(bitPos, codeLen) == (bitPos + codeLen) \div 8 + 1

\* number of bytes that hold the next code: ceil((bitPos + codeLen) / 8)
BytesNeeded(bitPos, codeLen) == (bitPos + codeLen + 7) \div 8

\* the value of the next code once its bytes are combined
ExtractCode(combined, bitPos, codeLen) ==
    (combined \div Pow2(bitPos)) % Pow2(codeLen)

\* a variant of ReadCode that leaves the position where it is
ReadCodeInPlace(data, g) ==
    LET count == BytesNeeded(g.bitPos, g.codeLen)
    IN  IF g.pos + count > Len(data)
        THEN [g EXCEPT !.err = Truncated]
        ELSE [g EXCEPT !.code = ExtractCode(CombineBytes(data, g.pos, count),
                                            g.bitPos, g.codeLen),
                       !.yieldLen = g.codeLen,
                       !.yieldPrev = g.prevCode]

\* gif.py 243-255: read the next code and advance
ReadCode(data, g) ==
    LET count == BytesNeeded(g.bitPos, g.codeLen)
    IN  IF g.pos + count > Len(data)
        THEN [g EXCEPT !.err = Truncated]
        ELSE LET code == ExtractCode(CombineBytes(data, g.pos, count),
                                     g.bitPos, g.codeLen)
                 bits == g.bitPos + g.codeLen
             IN  [g EXCEPT !.code = code,
                           !.yieldLen = g.codeLen,
                           !.yieldPrev = g.prevCode,
                           !.pos = g.pos + bits \div 8,
                           !.bitPos = bits % 8]

\* the reader's test of a data code against its dictionary length
CodeTooLarge(code, dictLen) == code > dictLen

\* a variant of MayAddEntry without the limit of 4096 entries
MayAddEntryNoCap(code, dictLen) == code < dictLen

\* the reader's test for remembering a code as prefix of the next entry
MayAddEntry(code, dictLen) == code < dictLen /\ dictLen < Pow2(MaxCodeLen)

\* a variant of MustGrow that goes on widening beyond 12 bits
MustGrowNoCap(dictLen, codeLen) == dictLen = Pow2(codeLen)

\* the reader's test for widening the codes
MustGrow(dictLen, codeLen) == dictLen = Pow2(codeLen) /\ codeLen < MaxCodeLen

\* gif.py 259-278: what the generator does with the code it has yielded
AfterYield(g, palBits) ==
    IF g.code = clearCode(palBits)
    THEN [g EXCEPT !.codeLen = palBits + 1,
                   !.dictLen = Pow2(palBits) + 2,
                   !.prevCode = None]
    ELSE IF g.code = endCode(palBits)
    THEN [g EXCEPT !.finished = TRUE]
    ELSE IF g.prevCode # None /\ CodeTooLarge(g.code, g.dictLen)
    THEN [g EXCEPT !.err = BadCode]
    ELSE LET dictLen == IF g.prevCode # None THEN g.dictLen + 1
                        ELSE g.dictLen
             prevCode == IF MayAddEntry(g.code, dictLen) THEN g.code
                         ELSE None
             codeLen == IF MustGrow(dictLen, g.codeLen) THEN g.codeLen + 1
                        ELSE g.codeLen
         IN  [g EXCEPT !.dictLen = dictLen, !.prevCode = prevCode,
                       !.codeLen = codeLen]

\* gif.py 232-238: the generator before its first code
GenStart(palBits) ==
    [pos |-> 0, bitPos |-> 0, codeLen |-> palBits + 1,
     dictLen |-> Pow2(palBits) + 2, prevCode |-> None,
     code |-> None, yieldLen |-> 0, yieldPrev |-> None,
     started |-> FALSE, finished |-> FALSE, err |-> NoError]

\* next(generator): run lzw_bytes_to_codes to its next yield, its end or
\* its error
lzw_bytes_to_codes(data, palBits, g) ==
    IF ~g.started
    THEN ReadCode(data, [g EXCEPT !.started = TRUE])
    ELSE LET after == AfterYield(g, palBits)
         IN  IF after.finished \/ after.err # NoError
             THEN after
             ELSE ReadCode(data, after)

(***************************************************************************)
(* LZW decoder, the dictionary (gif.py 280-328).  lzwDict is a sequence of *)
(* pairs <<code of the prefix or Root, final byte>>; code c is lzwDict[c+1].*)
(***************************************************************************)
Root == -1

\* gif.py 295: the roots and the two reserved slots
InitialDict(palBits) == [i \in 1..(Pow2(palBits) + 2) |-> <<Root, i - 1>>]

\* gif.py 310-311: the first byte of the entry of suffixCode
RECURSIVE FirstByte(_, _)
FirstByte(lzwDict, suffixCode) ==
    LET e == lzwDict[suffixCode + 1]
    IN  IF e[1] = Root THEN e[2] ELSE FirstByte(lzwDict, e[1])

\* a variant of SuffixSource that always takes the previous code
SuffixSourcePrevOnly(code, prevCode, dictLength) == prevCode

\* gif.py 309: the code whose first byte ends the new entry
SuffixSource(code, prevCode, dictLength) ==
    IF code < dictLength THEN code ELSE prevCode

\* gif.py 315-321: the bytes of the entry of code, first byte first;
\* code < Len(lzwDict)
RECURSIVE EntryBytes(_, _)
EntryBytes(lzwDict, code) ==
    IF code = Root THEN << >>
    ELSE LET e == lzwDict[code + 1]
         IN  Append(EntryBytes(lzwDict, e[1]), e[2])

\* entry.append(byte) of a bytearray fails on a value above 255
FitsByte(entry) == \A k \in 1..Len(entry) : entry[k] <= 255

\* a variant of NoEntry that also finds no entry for the last code
NoEntryOffByOne(code, dictLength) == code >= dictLength - 1

\* gif.py 316-319: lzwDict[code] raises IndexError, which lzw_decode turns
\* into the GifError "invalid LZW code"
NoEntry(code, dictLength) == code >= dictLength

\* gif.py 302-323: the body of the for loop of lzw_decode for one yielded
\* (code, codeLen, prevCode)
lzw_decode_body(d, palBits, code, prevCode) ==
    IF code = clearCode(palBits)
    THEN [d EXCEPT !.lzwDict = SubSeq(d.lzwDict, 1,
                        Min(Len(d.lzwDict), Pow2(palBits) + 2))]
    ELSE IF code = endCode(palBits)
    THEN d
    ELSE LET source == SuffixSource(code, prevCode, Len(d.lzwDict))
         IN  IF prevCode # None /\ source >= Len(d.lzwDict)
             THEN [d EXCEPT !.err = IndexError]
             ELSE
         LET dict == IF prevCode # None
                     THEN Append(d.lzwDict,
                                 <<prevCode, FirstByte(d.lzwDict, source)>>)
                     ELSE d.lzwDict
         IN  IF NoEntry(code, Len(dict))
             THEN [d EXCEPT !.lzwDict = dict, !.err = BadCode]
             ELSE
         LET entry == EntryBytes(dict, code)
         IN  IF ~FitsByte(entry)
             THEN [d EXCEPT !.lzwDict = dict, !.err = ValueError]
             ELSE [d EXCEPT !.lzwDict = dict,
                            !.imageData = d.imageData \o entry]

\* gif.py 285-295: lzw_decode before its first code
DecodeStart(palBits) ==
    [lzwDict |-> InitialDict(palBits), imageData |-> << >>,
     codeCount |-> 0, totalCodeLen |-> 0, err |-> NoError]

\* the whole of lzw_decode from generator state g and decoder state d
RECURSIVE lzw_decode_from(_, _, _, _)
lzw_decode_from(data, palBits, g, d) ==
    LET g2 == lzw_bytes_to_codes(data, palBits, g)
    IN  IF g2.err # NoError THEN [err |-> g2.err, imageData |-> d.imageData]
        ELSE IF g2.finished THEN [err |-> NoError, imageData |-> d.imageData]
        ELSE LET d2 == lzw_decode_body(
                          [d EXCEPT !.codeCount = d.codeCount + 1,
                                    !.totalCodeLen = d.totalCodeLen
                                                     + g2.yieldLen],
                          palBits, g2.code, g2.yieldPrev)
             IN  IF d2.err # NoError
                 THEN [err |-> d2.err, imageData |-> d2.imageData]
                 ELSE lzw_decode_from(data, palBits, g2, d2)

lzw_decode(data, palBits) ==
    lzw_decode_from(data, palBits, GenStart(palBits), DecodeStart(palBits))

(***************************************************************************)
(* Deinterlacing and the output of the decoder (gif.py 330-382).           *)
(***************************************************************************)
\* a variant of SourceRow whose groups start at rounded-down row counts
SourceRowRoundedDown(dy, height) ==
    LET group2Start == height \div 8
        group3Start == height \div 4
        group4Start == height \div 2
    IN  IF dy % 8 = 0 THEN dy \div 8
        ELSE IF dy % 8 = 4 THEN group2Start + dy \div 8
        ELSE IF dy % 4 = 2 THEN group3Start + dy \div 4
        ELSE group4Start + dy \div 2

\* gif.py 346-353: the stored row that holds destination row dy
SourceRow(dy, height) ==
    LET group2Start == (height + 7) \div 8
        group3Start == (height + 3) \div 4
        group4Start == (height + 1) \div 2
    IN  IF dy % 8 = 0 THEN dy \div 8
        ELSE IF dy % 8 = 4 THEN group2Start + dy \div 8
        ELSE IF dy % 4 = 2 THEN group3Start + dy \div 4
        ELSE group4Start + dy \div 2

RECURSIVE JoinRows(_, _, _, _)
JoinRows(imageData, width, height, dy) ==
    IF dy >= height THEN << >>
    ELSE LET sy == SourceRow(dy, height)
         IN  Slice(imageData, sy * width, (sy + 1) * width)
             \o JoinRows(imageData, width, height, dy + 1)

\* b"".join(deinterlace_image(imageData, width))
deinterlace_image(imageData, width) ==
    JoinRows(imageData, width, Len(imageData) \div width, 0)

\* max(imageData) of a non-empty byte string
MaxOf(imageData) ==
    CHOOSE m \in {imageData[k] : k \in 1..Len(imageData)} :
        \A k \in 1..Len(imageData) : imageData[k] <= m

\* a variant of IndexCheckApplies that wants a difference of two bits
IndexCheckAppliesLate(lzwPalBits, palBits) == lzwPalBits > palBits + 1

\* gif.py 369: which decodes get the index check
IndexCheckApplies(lzwPalBits, palBits) == lzwPalBits > palBits

\* gif.py 369: an index the palette cannot hold
IndexTooLarge(index, palBits) == index >= Pow2(palBits)

\* a variant of CheckIndex that checks nothing
CheckIndexOmitted(imageData, lzwPalBits, palBits) == NoError

\* gif.py 369-370: the outcome of the index check
CheckIndex(imageData, lzwPalBits, palBits) ==
    IF ~IndexCheckApplies(lzwPalBits, palBits) THEN NoError
    ELSE IF Len(imageData) = 0 THEN ValueError
    ELSE IF IndexTooLarge(MaxOf(imageData), palBits) THEN BadIndex
    ELSE NoError

\* gif.py 377 and 382: palette[i] of the tuple of 3-byte colours
PaletteEntry(palette, i) == Slice(palette, 3 * i, 3 * i + 3)

PaletteSize(palette) == (Len(palette) + 2) \div 3

(***************************************************************************)
(* Palette and indexed image of the encoder (gif.py 386-416).              *)
(***************************************************************************)
\* handle.read(3) for pixel i of the raw image
RawPixel(rawData, i) == Slice(rawData, 3 * i, 3 * i + 3)

\* the largest palette a GIF holds (gif.py 395)
MaxPaletteSize == 256

\* gif.py 391-396: the set of colours of the pixels; the error is raised
\* as soon as the set holds more than 256 colours, so whenever the colours
\* of all the pixels are more than 256
CollectColors(rawData, pixelCount) ==
    LET colors == {RawPixel(rawData, i) : i \in 0..(pixelCount - 1)}
    IN  IF Cardinality(colors) > MaxPaletteSize
        THEN [err |-> TooManyColors, colors |-> colors]
        ELSE [err |-> NoError, colors |-> colors]

\* the order of byte strings: a < b
RECURSIVE BytesLess(_, _)
BytesLess(a, b) ==
    IF Len(b) = 0 THEN FALSE
    ELSE IF Len(a) = 0 THEN TRUE
    ELSE IF a[1] # b[1] THEN a[1] < b[1]
    ELSE BytesLess(Tail(a), Tail(b))

\* the colours in the opposite order
RECURSIVE JoinSortedDescending(_)
JoinSortedDescending(colors) ==
    IF colors = {} THEN << >>
    ELSE LET middle == CHOOSE c \in colors :
                 Cardinality({x \in colors : BytesLess(x, c)})
                     = Cardinality(colors) \div 2
         IN  JoinSortedDescending({x \in colors : BytesLess(middle, x)})
             \o middle
             \o JoinSortedDescending({x \in colors : BytesLess(x, middle)})

\* b"".join(sorted(colors)): the colours before the middle one, in order,
\* the middle one, and the colours after it, in order
RECURSIVE JoinSorted(_)
JoinSorted(colors) ==
    IF colors = {} THEN << >>
    ELSE LET middle == CHOOSE c \in colors :
                 Cardinality({x \in colors : BytesLess(x, c)})
                     = Cardinality(colors) \div 2
         IN  JoinSorted({x \in colors : BytesLess(x, middle)})
             \o middle
             \o JoinSorted({x \in colors : BytesLess(middle, x)})

get_palette_from_raw_image(rawData) ==
    LET got == CollectColors(rawData, Len(rawData) \div 3)
    IN  IF got.err # NoError THEN [err |-> got.err, palette |-> << >>]
        ELSE [err |-> NoError, palette |-> JoinSorted(got.colors)]

\* rgbToIndex[color]: the last i with palette[i*3:(i+1)*3] = color
RgbToIndex(palette, color) ==
    LET hits == {i \in 0..(Len(palette) \div 3 - 1) :
                     Slice(palette, 3 * i, 3 * i + 3) = color}
    IN  IF hits = {} THEN None
        ELSE CHOOSE i \in hits : \A j \in hits : j <= i

raw_image_to_indexed(rawData, palette) ==
    [i \in 1..(Len(rawData) \div 3) |->
        RgbToIndex(palette, RawPixel(rawData, i - 1))]

\* math.ceil(math.log2(colorCount))
RECURSIVE CeilLog2From(_, _)
CeilLog2From(colorCount, k) ==
    IF Pow2(k) >= colorCount THEN k ELSE CeilLog2From(colorCount, k + 1)

get_palette_bit_depth(colorCount) == Max(CeilLog2From(colorCount, 0), 1)

(***************************************************************************)
(* LZW encoder (gif.py 418-501).  lzw_encode is a generator: e holds its   *)
(* local variables and the point where it is suspended; the dictionary is  *)
(* a function from entries (byte strings) to codes.                        *)
(***************************************************************************)
\* gif.py 428 and 466: the dictionary of the roots
RootDict(palBits) ==
    [entry \in {<<i>> : i \in 0..(Pow2(palBits) - 1)} |-> entry[1]]

DictLen(lzwDict) == Cardinality(DOMAIN lzwDict)

\* a variant of MatchLen that stops at the first byte
MatchLenShort(lzwDict, imageData, pos, n) ==
    IF pos + 1 <= Len(imageData) /\ SubSeq(imageData, pos + 1, pos + 1) \in DOMAIN lzwDict
    THEN 1 ELSE 0

\* gif.py 441-447: the length of the longest entry at imageData[pos:],
\* found by extending the entry byte by byte from length n
RECURSIVE MatchLen(_, _, _, _)
MatchLen(lzwDict, imageData, pos, n) ==
    IF pos + n + 1 <= Len(imageData)
       /\ SubSeq(imageData, pos + 1, pos + n + 1) \in DOMAIN lzwDict
    THEN MatchLen(lzwDict, imageData, pos, n + 1)
    ELSE n

\* a dictionary that is taken to be full one entry early
DictNotFullOneLess(lzwDict) == DictLen(lzwDict) < Pow2(MaxCodeLen) - 3

\* gif.py 455: room for another entry
DictNotFull(lzwDict) == DictLen(lzwDict) < Pow2(MaxCodeLen) - 2

\* a variant of NewCode that does not skip the two reserved codes
NewCodeNoSkip(lzwDict) == DictLen(lzwDict)

\* gif.py 459: the code given to a new entry
NewCode(lzwDict) == DictLen(lzwDict) + 2

\* a variant of EncMustGrow that widens the codes one entry later
EncMustGrowLate(lzwDict, codeLen) == DictLen(lzwDict) > Pow2(codeLen) - 1

\* gif.py 460: the codes get wider
EncMustGrow(lzwDict, codeLen) == DictLen(lzwDict) > Pow2(codeLen) - 2

\* gif.py 435: the generator before its first yield
EncStart(palBits) ==
    [lzwDict |-> RootDict(palBits), pos |-> 0, codeLen |-> palBits + 1,
     entryLen |-> 0, code |-> None, at |-> "start",
     yieldCode |-> None, yieldLen |-> 0]

\* gif.py 437-450 and 469: the top of the while loop, up to the next yield
EncLoop(e, palBits, imageData) ==
    IF e.pos < Len(imageData)
    THEN LET n == MatchLen(e.lzwDict, imageData, e.pos, 0)
             code == IF n = 0 THEN e.code
                     ELSE e.lzwDict[SubSeq(imageData, e.pos + 1, e.pos + n)]
         IN  [e EXCEPT !.entryLen = n, !.code = code, !.at = "code",
                       !.yieldCode = code, !.yieldLen = e.codeLen]
    ELSE [e EXCEPT !.at = "end", !.yieldCode = endCode(palBits),
                   !.yieldLen = e.codeLen]

\* gif.py 453-466: from the yield of a data code to the next yield
EncAfterCode(e, palBits, imageData, noDictReset) ==
    LET pos == e.pos + e.entryLen
        moved == [e EXCEPT !.pos = pos]
    IN  IF pos < Len(imageData)
        THEN IF DictNotFull(e.lzwDict)
             THEN LET entry == SubSeq(imageData, e.pos + 1, pos + 1)
                      dict == (entry :> NewCode(e.lzwDict)) @@ e.lzwDict
                      codeLen == IF EncMustGrow(dict, e.codeLen)
                                 THEN e.codeLen + 1 ELSE e.codeLen
                  IN  EncLoop([moved EXCEPT !.lzwDict = dict,
                                            !.codeLen = codeLen],
                              palBits, imageData)
             ELSE IF ~noDictReset
             THEN [moved EXCEPT !.at = "reset",
                                !.yieldCode = clearCode(palBits),
                                !.yieldLen = e.codeLen]
             ELSE EncLoop(moved, palBits, imageData)
        ELSE EncLoop(moved, palBits, imageData)

\* next(generator): run lzw_encode to its next yield or to its end
lzw_encode(e, palBits, imageData, noDictReset) ==
    IF e.at = "start"
    THEN [e EXCEPT !.at = "clear", !.yieldCode = clearCode(palBits),
                   !.yieldLen = e.codeLen]
    ELSE IF e.at = "clear"
    THEN EncLoop(e, palBits, imageData)
    ELSE IF e.at = "code"
    THEN EncAfterCode(e, palBits, imageData, noDictReset)
    ELSE IF e.at = "reset"
    THEN EncLoop([e EXCEPT !.codeLen = palBits + 1,
                           !.lzwDict = RootDict(palBits)],
                 palBits, imageData)
    ELSE [e EXCEPT !.at = "finished"]

\* gif.py 474-476: the bit buffer of lzw_codes_to_bytes
PackStart == [data |-> 0, dataLen |-> 0, dataBytes |-> << >>,
              codeCount |-> 0, totalCodeLen |-> 0]

\* gif.py 486-489: chop the full bytes off the buffer
RECURSIVE ChopBytes(_)
ChopBytes(b) ==
    IF b.dataLen >= 8
    THEN ChopBytes([b EXCEPT !.dataBytes = Append(b.dataBytes, b.data % 256),
                             !.data = b.data \div 256,
                             !.dataLen = b.dataLen - 8])
    ELSE b

\* a variant of PrependCode that puts the code one bit too high
PrependCodeTooHigh(data, dataLen, code) == data + code * Pow2(dataLen + 1)

\* gif.py 483: data |= code << dataLen; no bit of data is at dataLen or above
PrependCode(data, dataLen, code) == data + code * Pow2(dataLen)

\* gif.py 482-492: the body of the for loop for one yielded (code, codeLen)
PackCode(b, code, codeLen) ==
    LET chopped == ChopBytes([b EXCEPT
                        !.data = PrependCode(b.data, b.dataLen, code),
                        !.dataLen = b.dataLen + codeLen])
    IN  [chopped EXCEPT !.codeCount = b.codeCount + 1,
                        !.totalCodeLen = b.totalCodeLen + codeLen]

\* gif.py 494-496: the last byte
Flush(b) ==
    IF b.dataLen # 0 THEN Append(b.dataBytes, b.data) ELSE b.dataBytes

\* the whole of lzw_codes_to_bytes from generator state e and buffer b
RECURSIVE lzw_codes_to_bytes_from(_, _, _, _, _)
lzw_codes_to_bytes_from(e, b, paletteBits, imageData, noDictReset) ==
    LET e2 == lzw_encode(e, paletteBits, imageData, noDictReset)
    IN  IF e2.at = "finished" THEN Flush(b)
        ELSE lzw_codes_to_bytes_from(e2,
                 PackCode(b, e2.yieldCode, e2.yieldLen),
                 paletteBits, imageData, noDictReset)

lzw_codes_to_bytes(paletteBits, imageData, noDictReset) ==
    lzw_codes_to_bytes_from(EncStart(paletteBits), PackStart, paletteBits,
                            imageData, noDictReset)

(***************************************************************************)
(* Container writer and the encoder's driver (gif.py 503-548).             *)
(***************************************************************************)
\* the largest subblock (0xff in gif.py 528)
MaxSubblock == 255

\* a variant of WriteSubblocks that writes the data as one subblock
WriteSubblocksWhole(lzwData, pos) ==
    IF pos < Len(lzwData)
    THEN <<(Len(lzwData) - pos) % 256>> \o Slice(lzwData, pos, Len(lzwData))
    ELSE << >>

\* gif.py 526-530: the subblocks of lzwData from pos
RECURSIVE WriteSubblocks(_, _)
WriteSubblocks(lzwData, pos) ==
    IF pos < Len(lzwData)
    THEN LET sbSize == Min(MaxSubblock, Len(lzwData) - pos)
         IN  <<sbSize>> \o Slice(lzwData, pos, pos + sbSize)
             \o WriteSubblocks(lzwData, pos + sbSize)
    ELSE << >>

\* gif.py 523 and 546: the palette bit depth in the LZW encoding
LzwPalBits(palBits) == Max(palBits, 2)

\* gif.py 512-513: the header and the Logical Screen Descriptor
WriteHeader(width, height, palBits) ==
    GIF \o V87a \o PackU16(width) \o PackU16(height)
    \o <<128 + (palBits - 1), 0, 0>>

\* a Global Color Table that is not padded
WriteGctUnpadded(palette, palBits) == palette

\* gif.py 516: the padded Global Color Table
WriteGct(palette, palBits) ==
    palette \o Zeros(Pow2(palBits) * 3 - Len(palette))

\* gif.py 519-523: the Image Descriptor and the LZW palette bit depth
WriteImageDescriptor(width, height, palBits) ==
    <<Comma>> \o PackU16(0) \o PackU16(0) \o PackU16(width)
    \o PackU16(height) \o <<0>> \o <<LzwPalBits(palBits)>>

\* everything write_gif writes
write_gif(width, height, palette, lzwData) ==
    LET palBits == get_palette_bit_depth(Len(palette) \div 3)
    IN  WriteHeader(width, height, palBits) \o WriteGct(palette, palBits)
        \o WriteImageDescriptor(width, height, palBits)
        \o WriteSubblocks(lzwData, 0) \o <<0, Semicolon>>

\* gif.py 538-540: the size check of encode_gif
RgbSizeError(size, width) ==
    LET height == size \div (width * 3)
        remainder == size % (width * 3)
    IN  remainder # 0 \/ ~(1 <= height /\ height <= 65535)

(***************************************************************************)
(* The inputs of the model.  The encoder is given raw RGB files, the       *)
(* decoder GIF files; both are built here from a few pieces.               *)
(***************************************************************************)
\* the sequences over S of length 0..n
RECURSIVE SeqsUpTo(_, _)
SeqsUpTo(S, n) ==
    IF n = 0 THEN {<< >>}
    ELSE LET shorter == SeqsUpTo(S, n - 1)
         IN  shorter \cup {Append(q, x) : q \in {r \in shorter : Len(r) = n - 1},
                                          x \in S}

\* the concatenation of parts, all of them n long
Flatten(parts, n) ==
    [k \in 1..(n * Len(parts)) |-> parts[((k - 1) \div n) + 1][((k - 1) % n) + 1]]

\* the concatenation of parts of any length
RECURSIVE Concat(_)
Concat(parts) ==
    IF Len(parts) = 0 THEN << >> ELSE Head(parts) \o Concat(Tail(parts))

\* colour c of the enumerated rasters; a larger c sorts first
Color(c) == <<255 - c, c, 0>>

\* colour i of a ramp
RampColor(i) == <<i % 256, i \div 256, 0>>

Solid(n) == Flatten([i \in 1..n |-> Color(0)], 3)

Ramp(n) == Flatten([i \in 1..n |-> RampColor(i - 1)], 3)

\* the numbers of colours of the ramps: the palette sizes at the edges of
\* the bit depths, and one colour too many
RampSizes == {1, 2, 3, 4, 5, 16, 17, 256, 257}

EncodeInputs ==
    {[raw |-> Flatten([i \in 1..Len(px) |-> Color(px[i])], 3), width |-> w] :
        px \in SeqsUpTo(0..(NumColors - 1), MaxPixels), w \in 1..MaxWidth}
    \cup {[raw |-> Append(Color(0), 0), width |-> 1]}
    \cup {[raw |-> Solid(k * k), width |-> k] : k \in 1..MaxSide}
    \cup {[raw |-> Ramp(n), width |-> n] : n \in RampSizes}

\* a 13-byte header and Logical Screen Descriptor
Header(magic, version, packedFields) ==
    magic \o version \o <<1, 0, 1, 0>> \o <<packedFields, 0, 0>>

\* a colour table of 2^bits entries; tag tells the tables apart
ColorTable(bits, tag) ==
    Flatten([i \in 1..Pow2(bits) |-> <<i - 1, tag, 255 - (i - 1)>>], 3)

\* a chain of subblocks that holds payload
Chain(payload) == WriteSubblocks(payload, 0) \o <<0>>

\* an Image Descriptor, its Local Color Table if packedFields has one, the
\* LZW palette bit depth and the LZW data
Image(w, h, packedFields, lzwPalBits, lzw) ==
    <<Comma, 0, 0, 0, 0>> \o PackU16(w) \o PackU16(h) \o <<packedFields>>
    \o (IF HasTable(packedFields)
        THEN ColorTable(TableBits(packedFields), 1) ELSE << >>)
    \o <<lzwPalBits>> \o Chain(lzw)

\* bit n of the stream of codes, all codeLen bits wide, 0 after the end
StreamBit(codes, codeLen, n) ==
    IF n \div codeLen >= Len(codes) THEN 0
    ELSE (codes[(n \div codeLen) + 1] \div Pow2(n % codeLen)) % 2

\* codes packed LSB-first, all codeLen bits wide
PackFixed(codes, codeLen) ==
    [k \in 1..((Len(codes) * codeLen + 7) \div 8) |->
        StreamBit(codes, codeLen, 8 * (k - 1))
        + 2 * StreamBit(codes, codeLen, 8 * (k - 1) + 1)
        + 4 * StreamBit(codes, codeLen, 8 * (k - 1) + 2)
        + 8 * StreamBit(codes, codeLen, 8 * (k - 1) + 3)
        + 16 * StreamBit(codes, codeLen, 8 * (k - 1) + 4)
        + 32 * StreamBit(codes, codeLen, 8 * (k - 1) + 5)
        + 64 * StreamBit(codes, codeLen, 8 * (k - 1) + 6)
        + 128 * StreamBit(codes, codeLen, 8 * (k - 1) + 7)]

\* the codes tried at bit depth p: two roots, CLEAR, END, the first free
\* code and the one after it
CodeSample(p) == {0, Pow2(p) - 1, Pow2(p), Pow2(p) + 1, Pow2(p) + 2, Pow2(p) + 3}

LzwStreams(p) == {PackFixed(codes, p + 1) : codes \in SeqsUpTo(CodeSample(p), MaxCodes)}

\* the pairs <<palette bit depth, LZW palette bit depth>> tried
BitPairs == {<<1, 2>>, <<2, 2>>, <<2, 3>>, <<3, 2>>, <<8, 8>>, <<8, 9>>, <<1, 11>>}

\* files that differ in their LZW data
LzwFiles ==
    UNION {{Header(GIF, V89a, 128 + (bp[1] - 1)) \o ColorTable(bp[1], 0)
            \o Image(2, 1, 0, bp[2], lzw) \o <<Semicolon>> :
               lzw \in LzwStreams(bp[2])} : bp \in BitPairs}

\* the LZW data CLEAR, 0, 1, END at bit depth 2
GoodLzw == PackFixed(<<4, 0, 1, 5>>, 3)

PNG == <<80, 78, 71>>
V00a == <<48, 48, 97>>

\* the table of packedFields if it announces one
TableOf(packedFields, tag) ==
    IF HasTable(packedFields) THEN ColorTable(TableBits(packedFields), tag)
    ELSE << >>

\* files that differ in header, Global and Local Color Table
HeaderFiles ==
    {Header(magic, version, lsd) \o TableOf(lsd, 0)
     \o Image(2, 1, img, 2, GoodLzw) \o <<Semicolon>> :
        magic \in {GIF, PNG}, version \in {V87a, V89a, V00a},
        lsd \in {0, 128, 145, 7}, img \in {0, 128, 193, 64}}

\* an extension block
Extension(label, blockData, payload) ==
    <<Bang, label>>
    \o (IF label = CommentLabel THEN << >> ELSE <<Len(blockData)>> \o blockData)
    \o Chain(payload)

\* the blocks tried before the image
PreBlocks ==
    {Extension(label, blockData, payload) :
        label \in {1, 249, 255, 254, 2},
        blockData \in {<< >>, <<Comma, Semicolon>>},
        payload \in {<< >>, <<Semicolon, Comma, 0>>}}
    \cup {<<Semicolon>>, <<0>>}

\* files that differ in the blocks before the image and in what follows it
BlockFiles ==
    {Header(GIF, V89a, lsd) \o TableOf(lsd, 0) \o Concat(blocks)
     \o Image(2, 1, 0, 2, GoodLzw) \o after :
        lsd \in {128}, blocks \in SeqsUpTo(PreBlocks, MaxBlocks),
        after \in {<<Semicolon>>, <<Comma, 0, 0, 0, 0, 0, 0, 0, 0, 0, 1, 0>>}}

\* files that differ in the Image Descriptor
ImageFiles ==
    {Header(GIF, V89a, 129) \o ColorTable(2, 0)
     \o Image(w, h, img, bits, GoodLzw) \o <<Semicolon>> :
        w \in {0, 1, 2, 256}, h \in {0, 1, 2}, img \in {0, 64},
        bits \in {0, 1, 2, 3, 11, 12, 255}}

\* the prefixes of a file
Prefixes(data) == {SubSeq(data, 1, n) : n \in 0..Len(data)}

\* files cut short, with and without the magic
CutFiles ==
    UNION {Prefixes(Header(magic, V89a, 128) \o ColorTable(1, 0)
                    \o Extension(249, <<4, 0, 0, 0>>, << >>)
                    \o Extension(254, << >>, <<7, 7>>)
                    \o Image(1, 1, 128, 2, GoodLzw) \o <<Semicolon>>) :
           magic \in {GIF, PNG}}

\* the fixed-width LZW data that clears the dictionary before every pixel
ClearEvery(pixels, p) ==
    PackFixed(Flatten([i \in 1..Len(pixels) |-> <<Pow2(p), pixels[i]>>], 2)
              \o <<Pow2(p) + 1>>, p + 1)

\* well-formed files of w * h pixels, stored with a CLEAR before every
\* pixel: solid squares, and columns of four colours in turn
PlainFiles ==
    {Header(GIF, V87a, 129) \o ColorTable(2, 0)
     \o Image(k, k, 0, 2, ClearEvery([i \in 1..(k * k) |-> 0], 2))
     \o <<Semicolon>> : k \in 1..MaxSide}
    \cup
    {Header(GIF, V87a, 129) \o ColorTable(2, 0)
     \o Image(1, h, img, 2, ClearEvery([i \in 1..h |-> (i - 1) % 4], 2))
     \o <<Semicolon>> : h \in 1..MaxRows, img \in {0, 64}}

\* the LZW data of the KwKwK example (CLEAR, 1, 6, 6, 2 and four more bits)
\* with its last byte as published and with an END code in it
KwKwKBytes == {<<140, 45, 1>>, <<140, 45, 5>>}

\* files of 6 x 1 pixels with the LZW data of the KwKwK example
KwKwKFiles ==
    {Header(GIF, V89a, 129) \o ColorTable(2, 0)
     \o Image(6, 1, 0, 2, lzw) \o <<Semicolon>> : lzw \in KwKwKBytes}

\* the rows of an interlaced image in the order the file stores them:
\* rows 0, 8, 16, ..; then 4, 12, ..; then 2, 6, 10, ..; then 1, 3, 5, ..
PassRows(h, start, step) ==
    [i \in 1..((h - start + step - 1) \div step) |-> start + (i - 1) * step]

PassOrder(h) ==
    PassRows(h, 0, 8) \o PassRows(h, 4, 8) \o PassRows(h, 2, 4)
    \o PassRows(h, 1, 2)

\* interlaced files of 2 x h pixels of 16 colours whose row r has colour r,
\* stored in pass order
InterlacedFiles ==
    {Header(GIF, V87a, 131) \o ColorTable(4, 0)
     \o Image(2, h, 64, 4,
              ClearEvery([i \in 1..(2 * h) |->
                             PassOrder(h)[((i - 1) \div 2) + 1] % 16], 4))
     \o <<Semicolon>> : h \in 1..MaxRows}

DecodeInputs == LzwFiles \cup HeaderFiles \cup BlockFiles \cup ImageFiles
                \cup CutFiles \cup PlainFiles \cup KwKwKFiles
                \cup InterlacedFiles

(***************************************************************************)
(* The state: one run of main() after the other.  decode_gif reads file    *)
(* and writes rawOut; encode_gif reads raw and writes gifOut.              *)
(***************************************************************************)
VARIABLES
    pc,           \* the statement the running driver is at
    stages,       \* the operations run so far, "e" or "d", the last running
    err,          \* the exception that ended the driver, or NoError
    file,         \* contents of the GIF file given to decode_gif
    rawOut,       \* contents of the output file of decode_gif (rawHandle)
    raw,          \* contents of the raw RGB file given to encode_gif
    width,        \* args.width
    noDictReset,  \* args.no_dict_reset
    gifOut,       \* contents of the output file of encode_gif (gifHandle)
    info,         \* decode_gif: the result of read_gif
    palette,      \* the palette bytes (both drivers)
    lzwData,      \* the LZW data bytes (both drivers)
    gen,          \* decode_gif: the generator lzw_bytes_to_codes
    dec,          \* decode_gif: the local variables of lzw_decode
    imageData,    \* the indexed image (both drivers)
    height,       \* encode_gif: height
    enc,          \* encode_gif: the generator lzw_encode
    pack          \* encode_gif: the local variables of lzw_codes_to_bytes

vars == <<pc, stages, err, file, rawOut, raw, width, noDictReset, gifOut,
          info, palette, lzwData, gen, dec, imageData, height, enc, pack>>

decVars == <<info, gen, dec>>
encVars == <<height, enc, pack>>
argVars == <<stages, file, raw, width, noDictReset>>

Fresh ==
    /\ err = NoError /\ rawOut = << >> /\ gifOut = << >>
    /\ info = NoGif(NoError) /\ palette = << >> /\ lzwData = << >>
    /\ gen = GenStart(2) /\ dec = DecodeStart(2) /\ imageData = << >>
    /\ height = 0 /\ enc = EncStart(2) /\ pack = PackStart

InitEncode ==
    /\ \E input \in EncodeInputs : raw = input.raw /\ width = input.width
    /\ noDictReset \in BOOLEAN
    /\ file = << >>
    /\ stages = <<"e">> /\ pc = "encode_gif"
    /\ Fresh

InitDecode ==
    /\ file \in DecodeInputs
    /\ raw = << >> /\ width = 1 /\ noDictReset = FALSE
    /\ stages = <<"d">> /\ pc = "decode_gif"
    /\ Fresh

Init == InitEncode \/ InitDecode

\* the driver ends with exception e
Raise(e) == pc' = "failed" /\ err' = e

(***************************************************************************)
(* decode_gif (gif.py 356-382).                                            *)
(***************************************************************************)
\* gif.py 359: info = read_gif(gifHandle)
DecReadGif ==
    /\ pc = "decode_gif"
    /\ info' = read_gif(file)
    /\ IF info'.err # NoError THEN Raise(info'.err)
       ELSE pc' = "read_palette" /\ err' = err
    /\ UNCHANGED <<argVars, encVars, rawOut, gifOut, palette, lzwData, gen,
                   dec, imageData>>

\* gif.py 361-362: the palette bytes
DecReadPalette ==
    /\ pc = "read_palette"
    /\ LET got == read_bytes(file, info.palAddr, Pow2(info.palBits) * 3)
       IN  IF got.err # NoError
           THEN Raise(got.err) /\ palette' = palette
           ELSE pc' = "read_subblocks" /\ err' = err /\ palette' = got.bytes
    /\ UNCHANGED <<argVars, encVars, decVars, rawOut, gifOut, lzwData,
                   imageData>>

\* gif.py 364-365 and the first lines of lzw_decode (285-295)
DecReadSubblocks ==
    /\ pc = "read_subblocks"
    /\ LET got == read_subblocks(file, info.lzwAddr)
       IN  IF got.err # NoError
           THEN Raise(got.err) /\ UNCHANGED <<lzwData, gen, dec>>
           ELSE /\ pc' = "lzw_next" /\ err' = err
                /\ lzwData' = got.bytes
                /\ gen' = GenStart(info.lzwPalBits)
                /\ dec' = DecodeStart(info.lzwPalBits)
    /\ UNCHANGED <<argVars, encVars, info, rawOut, gifOut, palette,
                   imageData>>

\* gif.py 298: the for statement asks the generator for the next code
LzwNext ==
    /\ pc = "lzw_next"
    /\ gen' = lzw_bytes_to_codes(lzwData, info.lzwPalBits, gen)
    /\ IF gen'.err # NoError THEN Raise(gen'.err)
       ELSE IF gen'.finished THEN pc' = "check_index" /\ err' = err
       ELSE pc' = "lzw_body" /\ err' = err
    /\ UNCHANGED <<argVars, encVars, info, dec, rawOut, gifOut, palette,
                   lzwData, imageData>>

\* gif.py 299-323: the body of the for statement
LzwBody ==
    /\ pc = "lzw_body"
    /\ dec' = lzw_decode_body(
                 [dec EXCEPT !.codeCount = dec.codeCount + 1,
                             !.totalCodeLen = dec.totalCodeLen + gen.yieldLen],
                 info.lzwPalBits, gen.code, gen.yieldPrev)
    /\ IF dec'.err # NoError THEN Raise(dec'.err)
       ELSE pc' = "lzw_next" /\ err' = err
    /\ UNCHANGED <<argVars, encVars, info, gen, rawOut, gifOut, palette,
                   lzwData, imageData>>

\* gif.py 368-370: the image lzw_decode returns and the check of its indexes
DecCheckIndex ==
    /\ pc = "check_index"
    /\ imageData' = dec.imageData
    /\ LET e == CheckIndex(dec.imageData, info.lzwPalBits, info.palBits)
       IN  IF e # NoError THEN Raise(e)
           ELSE /\ err' = err
                /\ pc' = IF info.interlace THEN "deinterlace" ELSE "write"
    /\ UNCHANGED <<argVars, encVars, decVars, rawOut, gifOut, palette,
                   lzwData>>

\* gif.py 372-374
DecDeinterlace ==
    /\ pc = "deinterlace"
    /\ imageData' = deinterlace_image(imageData, info.width)
    /\ pc' = "write"
    /\ UNCHANGED <<argVars, encVars, decVars, err, rawOut, gifOut, palette,
                   lzwData>>

\* number of pixels decode_gif has written
Written == Len(rawOut) \div 3

\* gif.py 381-382: one turn of the loop that writes the pixels
DecWritePixel ==
    /\ pc = "write"
    /\ Written < Len(imageData)
    /\ LET i == imageData[Written + 1]
       IN  IF i >= PaletteSize(palette)
           THEN Raise(IndexError) /\ rawOut' = rawOut
           ELSE /\ rawOut' = rawOut \o PaletteEntry(palette, i)
                /\ pc' = pc /\ err' = err
    /\ UNCHANGED <<argVars, encVars, decVars, gifOut, palette, lzwData,
                   imageData>>

\* gif.py 381: the loop ends, decode_gif returns
DecReturn ==
    /\ pc = "write"
    /\ Written >= Len(imageData)
    /\ pc' = "done"
    /\ UNCHANGED <<argVars, encVars, decVars, err, rawOut, gifOut, palette,
                   lzwData, imageData>>

(***************************************************************************)
(* encode_gif (gif.py 535-548).                                            *)
(***************************************************************************)
\* gif.py 538-540
EncCheckSize ==
    /\ pc = "encode_gif"
    /\ IF RgbSizeError(Len(raw), width)
       THEN Raise(BadRgbSize) /\ height' = height
       ELSE /\ pc' = "get_palette" /\ err' = err
            /\ height' = Len(raw) \div (width * 3)
    /\ UNCHANGED <<argVars, decVars, enc, pack, rawOut, gifOut, palette,
                   lzwData, imageData>>

\* gif.py 542
EncGetPalette ==
    /\ pc = "get_palette"
    /\ LET got == get_palette_from_raw_image(raw)
       IN  IF got.err # NoError
           THEN Raise(got.err) /\ palette' = palette
           ELSE pc' = "to_indexed" /\ err' = err /\ palette' = got.palette
    /\ UNCHANGED <<argVars, decVars, encVars, rawOut, gifOut, lzwData,
                   imageData>>

\* the argument paletteBits of lzw_codes_to_bytes (gif.py 546)
EncPalBits == LzwPalBits(get_palette_bit_depth(Len(palette) \div 3))

\* gif.py 545-546 and the first lines of lzw_codes_to_bytes (474-479)
EncToIndexed ==
    /\ pc = "to_indexed"
    /\ imageData' = raw_image_to_indexed(raw, palette)
    /\ IF \E k \in 1..Len(imageData') : imageData'[k] = None
       THEN Raise(KeyError) /\ UNCHANGED <<enc, pack>>
       ELSE /\ pc' = "lzw_encode" /\ err' = err
            /\ enc' = EncStart(EncPalBits)
            /\ pack' = PackStart
    /\ UNCHANGED <<argVars, decVars, height, rawOut, gifOut, palette,
                   lzwData>>

\* gif.py 481-496: the for statement asks lzw_encode for the next code and
\* packs it; when the generator ends the last byte is written
EncLzwCode ==
    /\ pc = "lzw_encode"
    /\ enc' = lzw_encode(enc, EncPalBits, imageData, noDictReset)
    /\ IF enc'.at = "finished"
       THEN pc' = "write_gif" /\ lzwData' = Flush(pack) /\ pack' = pack
       ELSE /\ pc' = pc /\ lzwData' = lzwData
            /\ pack' = PackCode(pack, enc'.yieldCode, enc'.yieldLen)
    /\ UNCHANGED <<argVars, decVars, height, err, rawOut, gifOut, palette,
                   imageData>>

\* gif.py 548: write_gif; the assertion of get_palette_bit_depth comes first
EncWriteGif ==
    /\ pc = "write_gif"
    /\ LET colorCount == Len(palette) \div 3
       IN  IF ~(1 <= colorCount /\ colorCount <= MaxPaletteSize)
           THEN Raise("AssertionError") /\ gifOut' = gifOut
           ELSE /\ gifOut' = write_gif(width, height, palette, lzwData)
                /\ pc' = "done" /\ err' = err
    /\ UNCHANGED <<argVars, decVars, encVars, rawOut, palette, lzwData,
                   imageData>>

(***************************************************************************)
(* The next run of main(): the file one run has written is the input of    *)
(* the next, which starts with an empty output file.                       *)
(***************************************************************************)
Last(q) == q[Len(q)]

StartDecode ==
    /\ pc = "done" /\ Last(stages) = "e" /\ Len(stages) < MaxPasses
    /\ stages' = Append(stages, "d")
    /\ file' = gifOut
    /\ rawOut' = << >>
    /\ pc' = "decode_gif"
    /\ UNCHANGED <<raw, width, noDictReset, err, gifOut, decVars, encVars,
                   palette, lzwData, imageData>>

StartEncode ==
    /\ pc = "done" /\ Last(stages) = "d" /\ Len(stages) < MaxPasses
    /\ stages' = Append(stages, "e")
    /\ raw' = rawOut
    /\ width' = info.width
    /\ gifOut' = << >>
    /\ pc' = "encode_gif"
    /\ UNCHANGED <<file, noDictReset, err, rawOut, decVars, encVars,
                   palette, lzwData, imageData>>

Next ==
    \/ DecReadGif \/ DecReadPalette \/ DecReadSubblocks
    \/ LzwNext \/ LzwBody
    \/ DecCheckIndex \/ DecDeinterlace \/ DecWritePixel \/ DecReturn
    \/ EncCheckSize \/ EncGetPalette \/ EncToIndexed \/ EncLzwCode
    \/ EncWriteGif
    \/ StartDecode \/ StartEncode

Spec == Init /\ [][Next]_vars

(***************************************************************************)
(* Properties.  A run of decode_gif or encode_gif has ended when pc is     *)
(* "done" or "failed"; stages tells which runs came before it.             *)
(***************************************************************************)
\* the colours of the pixels of the raw file
ColorsOf(rawData) == {RawPixel(rawData, i) : i \in 0..(Len(rawData) \div 3 - 1)}

\* a raster encode_gif is specified for: a width of 1..65535, a length that
\* is a positive multiple of 3 * width, at most 256 colours
ValidRaster(rawData, w) ==
    /\ 1 <= w /\ w <= 65535
    /\ ~RgbSizeError(Len(rawData), w)
    /\ Cardinality(ColorsOf(rawData)) <= MaxPaletteSize

\* C1: for every valid raster and both settings of no_dict_reset,
\* encode_gif succeeds, and decode_gif on the bytes it wrote succeeds and
\* writes exactly the raster.
C1_RoundTrip ==
    ValidRaster(raw, width) =>
        /\ stages = <<"e">> => pc # "failed"
        /\ stages = <<"e", "d">> =>
              /\ pc # "failed"
              /\ pc = "done" => rawOut = raw

\* C1: the case of the failure: the raster of 8 x 8 pixels of one colour
\* has been encoded and given to decode_gif, which failed
C1_SolidSquareFails ==
    /\ stages = <<"e", "d">> /\ pc = "failed" /\ err = Truncated
    /\ raw = Solid(64) /\ width = 8

\* C2: if decode_gif accepts a GIF file and writes the RGB bytes X of an
\* image of width W, then encode_gif on (X, W) succeeds, decode_gif accepts
\* the file it wrote, and decoding that file writes exactly X.
C2_TwoPass ==
    /\ stages = <<"d", "e">> => pc # "failed"
    /\ stages = <<"d", "e", "d">> =>
          /\ pc # "failed"
          /\ pc = "done" => rawOut = raw

\* C2: the case of the failure: a well-formed file of 8 x 8 pixels of one
\* colour was decoded, the 192 bytes written were encoded again, and
\* decode_gif failed on the result
C2_SolidSquareFails ==
    /\ stages = <<"d", "e", "d">> /\ pc = "failed" /\ err = Truncated
    /\ Len(raw) = 192 /\ width = 8

\* C3: a run of decode_gif ends normally or with a GifError of one of the
\* listed kinds, never with another exception.
C3_OnlyGifErrors ==
    (Last(stages) = "d" /\ pc = "failed") => err \in GifErrors

\* C3: decode_gif has failed on a file whose LZW data holds no pixel, in
\* max() of the empty image
C3_EmptyImageFails ==
    /\ stages = <<"d">> /\ pc = "failed" /\ err = ValueError
    /\ imageData = << >> /\ gen.finished

\* C3: decode_gif has failed on a root of a bit depth above 8, which does
\* not fit a byte of the image
C3_WideRootFails ==
    /\ stages = <<"d">> /\ pc = "failed" /\ err = ValueError
    /\ info.lzwPalBits > 8 /\ gen.code > 255

\* the bytes the running driver has written to its output handle
Output == IF Last(stages) = "d" THEN rawOut ELSE gifOut

\* C4: when decode_gif or encode_gif has failed, with whatever error, it
\* has written no byte to its output handle: every failure comes before the
\* first write.
C4_NoPartialOutput == pc = "failed" => Output = << >>

\* C4: decode_gif has failed at its last check, the one of the indexes,
\* with pixels decoded and nothing written
C4_FailedAtLastCheck ==
    /\ Last(stages) = "d" /\ pc = "failed" /\ err = BadIndex
    /\ Len(imageData) > 1 /\ rawOut = << >>

\* C4: encode_gif has failed on a raster of 257 colours, nothing written
C4_TooManyColorsFailed ==
    /\ Last(stages) = "e" /\ pc = "failed" /\ err = TooManyColors
    /\ Cardinality(ColorsOf(raw)) = 257 /\ gifOut = << >>

\* a data code of the LZW stream: neither CLEAR nor END
IsDataCode(code, palBits) ==
    code # clearCode(palBits) /\ code # endCode(palBits)

\* C5: what the claim accepts: after a previous code (prev_code not NIL) a
\* code C <= L, where L is the dictionary length before the append; as the
\* first code or right after CLEAR a root, C < 2^p
C5_Accepted(code, prevCode, dictLength, palBits) ==
    IF prevCode # None THEN code <= dictLength ELSE code < Pow2(palBits)

\* C5: when lzw_decode receives a data code, the decode fails with BadCode
\* if and only if the code is not accepted: with a previous code, C <= L is
\* accepted (C = L is the KwKwK case) and C > L is rejected; as the first
\* code or right after a CLEAR only a root is accepted, so that C equal to
\* the dictionary length is rejected.  An accepted code of a bit depth up to
\* 8 lets the decode go on to the next code.
C5_BadCode ==
    [][(pc = "lzw_body" /\ IsDataCode(gen.code, info.lzwPalBits)) =>
         LET accepted == C5_Accepted(gen.code, gen.yieldPrev,
                                     Len(dec.lzwDict), info.lzwPalBits)
         IN  /\ (pc' = "failed" /\ err' = BadCode) <=> ~accepted
             /\ (accepted /\ info.lzwPalBits <= 8) => pc' = "lzw_next"
             /\ gen.yieldPrev = None =>
                   Len(dec.lzwDict) = Pow2(info.lzwPalBits) + 2]_vars

\* C5: the KwKwK case has been accepted: the code received is the entry
\* lzw_decode has just appended
C5_KwKwKAccepted ==
    /\ pc = "lzw_next" /\ gen.yieldPrev # None
    /\ IsDataCode(gen.code, info.lzwPalBits)
    /\ gen.code = Len(dec.lzwDict) - 1 /\ Len(dec.imageData) >= 3

\* C6: when the image lzw_decode returns holds an index >= 2^palBits,
\* palBits being the bit depth of the palette read_gif chose, decode_gif
\* fails with BadIndex; and no pixel the write loop looks up in the palette
\* is >= 2^palBits.
C6_BadIndex ==
    [][/\ (pc = "check_index"
           /\ \E k \in 1..Len(dec.imageData) :
                 dec.imageData[k] >= Pow2(info.palBits))
          => (pc' = "failed" /\ err' = BadIndex)
       /\ (pc = "write" /\ Written < Len(imageData))
          => /\ imageData[Written + 1] < Pow2(info.palBits)
             /\ rawOut' = rawOut \o PaletteEntry(palette,
                                                 imageData[Written + 1])
             /\ Len(rawOut') = Len(rawOut) + 3]_vars

\* C6: decode_gif has failed with BadIndex on an index that is a root of
\* the LZW bit depth but beyond the palette
C6_BadIndexRaised ==
    /\ pc = "failed" /\ err = BadIndex
    /\ info.lzwPalBits > info.palBits
    /\ \E k \in 1..Len(imageData) : imageData[k] >= Pow2(info.palBits)

\* TRUE when lzw_bytes_to_codes, run by itself from state g, reads an END
\* code from data
RECURSIVE ReadsEnd(_, _, _)
ReadsEnd(data, palBits, g) ==
    LET g2 == lzw_bytes_to_codes(data, palBits, g)
    IN  IF g2.err # NoError THEN FALSE
        ELSE IF g2.finished THEN TRUE
        ELSE ReadsEnd(data, palBits, g2)

\* the bits of data from byte pos on are fewer than bitPos + codeLen: the
\* next code needs a byte beyond the end of the data
NeedsByteBeyondEnd(data, pos, bitPos, codeLen) ==
    8 * (Len(data) - pos) < bitPos + codeLen

\* C7, first and last part: asked for the next code, the reader fails
\* exactly when no END code has been read and the code of the current
\* width needs a byte beyond the end of the LZW data, and then with
\* Truncated; once END is read the position does not move and the reader is
\* not asked again.
ReaderStep ==
    pc = "lzw_next" =>
        /\ pc' = "failed" => (err' = Truncated /\ gen'.err = Truncated)
        /\ pc' = "failed" <=>
              /\ ~gen'.finished
              /\ NeedsByteBeyondEnd(lzwData, gen.pos, gen.bitPos,
                                    gen'.codeLen)
        /\ gen'.finished =>
              /\ gen.code = endCode(info.lzwPalBits)
              /\ gen'.pos = gen.pos /\ gen'.bitPos = gen.bitPos
              /\ pc' = "check_index"
        /\ pc' = "check_index" => gen'.finished

C7_RejectedBeforeEnd ==
    /\ stages = <<"d">> /\ pc = "failed" /\ err = BadCode
    /\ ~ReadsEnd(lzwData, info.lzwPalBits, GenStart(info.lzwPalBits))

\* the file has been parsed by the decode_gif that is running or has ended
Parsed == Last(stages) = "d" /\ pc # "decode_gif"

\* the file has a whole header with the magic "GIF"
HasGifHeader == Len(file) >= 13 /\ SubSeq(file, 1, 3) = GIF

\* data with its version bytes (4..6) replaced
WithVersion(data, version) ==
    [k \in 1..Len(data) |-> IF k \in 4..6 THEN version[k - 3] ELSE data[k]]

\* C8, the version: a file whose magic is "GIF" and whose version is neither
\* "87a" nor "89a" parses to the result of the same file with version "89a"
\* (but for the warning)
VersionIgnored ==
    (Parsed /\ Len(file) >= 6 /\ SubSeq(file, 1, 3) = GIF
     /\ SubSeq(file, 4, 6) \notin {V87a, V89a})
    => /\ [info EXCEPT !.warning = FALSE] = read_gif(WithVersion(file, V89a))
       /\ info.err = NoError => info.warning

\* C8 as claimed: read_gif fails with NotGif for every input whose first
\* three bytes are not "GIF", whatever the rest of the input is; and an
\* unknown version is ignored.
C8_HeaderCheck ==
    /\ (Parsed /\ Len(file) >= 3 /\ SubSeq(file, 1, 3) # GIF)
       => (pc = "failed" /\ err = NotGif /\ info.err = NotGif)
    /\ VersionIgnored

\* C8 amended: read_gif fails with NotGif for every input of at least 13
\* bytes (a whole header and Logical Screen Descriptor) whose first three
\* bytes are not "GIF", and with Truncated for every shorter input; and an
\* unknown version is ignored.
C8_HeaderCheckWholeHeader ==
    /\ (Parsed /\ Len(file) >= 13 /\ SubSeq(file, 1, 3) # GIF)
       => (pc = "failed" /\ err = NotGif /\ info.err = NotGif)
    /\ (Parsed /\ Len(file) < 13)
       => (pc = "failed" /\ err = Truncated /\ info.err = Truncated)
    /\ VersionIgnored

\* C8: a file with a whole header and another magic has failed with NotGif
C8_NotGifRaised ==
    /\ Parsed /\ Len(file) >= 13 /\ SubSeq(file, 1, 3) = PNG
    /\ pc = "failed" /\ err = NotGif

\* C8: a file of unknown version has been decoded
C8_UnknownVersionDecoded ==
    /\ Parsed /\ HasGifHeader /\ SubSeq(file, 4, 6) = V00a
    /\ info.warning /\ pc = "done"
    /\ Len(rawOut) > 0

\* the offset of the size byte after the chain of sub-blocks whose first
\* size byte is at offset pos, or None when the file ends before
RECURSIVE ChainEnd(_, _)
ChainEnd(data, pos) ==
    IF pos >= Len(data) THEN None
    ELSE IF data[pos + 1] = 0 THEN pos + 1
    ELSE ChainEnd(data, pos + 1 + data[pos + 1])

\* the outcome of the block loop as the claim states it, from the block at
\* offset pos: the offset of the first ',' or the kind of the failure
RECURSIVE FirstImage(_, _)
FirstImage(data, pos) ==
    IF pos >= Len(data) THEN [kind |-> Truncated, pos |-> pos]
    ELSE IF data[pos + 1] = 44 THEN [kind |-> "image", pos |-> pos]
    ELSE IF data[pos + 1] = 59 THEN [kind |-> NoImage, pos |-> pos]
    ELSE IF data[pos + 1] # 33 THEN [kind |-> BadBlockType, pos |-> pos]
    ELSE IF pos + 1 >= Len(data) THEN [kind |-> Truncated, pos |-> pos]
    ELSE LET label == data[pos + 2]
             chain == IF label \in {1, 249, 255}
                      THEN IF pos + 2 >= Len(data) THEN None
                           ELSE ChainEnd(data, pos + 3 + data[pos + 3])
                      ELSE ChainEnd(data, pos + 2)
         IN  IF label \notin {1, 249, 255, 254}
             THEN [kind |-> BadExtension, pos |-> pos]
             ELSE IF chain = None THEN [kind |-> Truncated, pos |-> pos]
             ELSE FirstImage(data, chain)

\* the offset of the first block: after the header, the Logical Screen
\* Descriptor and the Global Color Table
FirstBlock(data) ==
    13 + (IF data[11] >= 128 THEN 3 * Pow2((data[11] % 8) + 1) ELSE 0)

\* C9: read_gif skips every extension of label 0x01, 0xF9 or 0xFF (a size
\* byte, that many bytes, a chain of sub-blocks) and of label 0xFE (a chain
\* of sub-blocks) before the first Image Descriptor, fails with BadExtension
\* on another label, with BadBlockType on a block byte other than ',', '!'
\* and ';', with NoImage on a ';' before any ',', and stops at the first
\* ',': the record it returns is the one of that image and does not depend
\* on what follows the image's lzw_min_code_size byte.
C9_BlockLoop ==
    (Parsed /\ HasGifHeader) =>
        LET first == FirstImage(file, FirstBlock(file))
        IN  /\ first.kind # "image" =>
                  (pc = "failed" /\ err = first.kind /\ info.err = first.kind)
            /\ first.kind = "image" =>
                  /\ info.err \notin {BadExtension, BadBlockType, NoImage}
                  /\ info.err = NoError =>
                        /\ info.width = U16(file[first.pos + 6],
                                            file[first.pos + 7])
                        /\ info.height = U16(file[first.pos + 8],
                                             file[first.pos + 9])
                        /\ info.lzwPalBits = file[info.lzwAddr]
                        /\ read_gif(SubSeq(file, 1, info.lzwAddr)) = info

\* C9: extensions have been skipped, one of them with a ',' or a ';' in its
\* bytes, bytes follow the image, and the file has been decoded
C9_ExtensionsSkipped ==
    /\ Parsed /\ HasGifHeader /\ pc = "done" /\ Len(rawOut) > 0
    /\ FirstImage(file, FirstBlock(file)).pos > FirstBlock(file) + 8
    /\ \E k \in (FirstBlock(file) + 1)..FirstImage(file, FirstBlock(file)).pos :
          file[k] \in {44, 59}
    /\ Len(file) > info.lzwAddr + 5

\* C10: read_gif returns the offset and bit depth of the Local Color Table
\* whenever the packed byte of the first image has bit 7 set, with or
\* without a Global Color Table; those of the Global Color Table when there
\* is only that one; and fails with NoPalette when there is neither.  The
\* bit depth is (packed & 7) + 1 and the table is the 3 * 2^bits bytes at
\* the offset: the palette decode_gif reads, and for a Local Color Table
\* the bytes between the packed byte and the lzw_min_code_size byte.
C10_EffectivePalette ==
    (Parsed /\ HasGifHeader /\ info.err \in {NoError, NoPalette}) =>
        LET first == FirstImage(file, FirstBlock(file)).pos
            imagePacked == file[first + 10]
            screenPacked == file[11]
        IN  /\ imagePacked >= 128 =>
                  /\ info.err = NoError
                  /\ info.palAddr = first + 10
                  /\ info.palBits = (imagePacked % 8) + 1
                  /\ info.lzwAddr = info.palAddr + 3 * Pow2(info.palBits) + 1
            /\ (imagePacked < 128 /\ screenPacked >= 128) =>
                  /\ info.err = NoError
                  /\ info.palAddr = 13
                  /\ info.palBits = (screenPacked % 8) + 1
            /\ (imagePacked < 128 /\ screenPacked < 128) =>
                  (info.err = NoPalette /\ pc = "failed" /\ err = NoPalette)
            /\ (info.err = NoError /\ pc \notin {"read_palette", "failed"}) =>
                  palette = SubSeq(file, info.palAddr + 1,
                                   info.palAddr + 3 * Pow2(info.palBits))

\* C10: a file with both tables has been decoded with the Local Color Table
C10_LocalTableChosen ==
    /\ Parsed /\ HasGifHeader /\ pc = "done" /\ Len(rawOut) > 0
    /\ file[11] >= 128 /\ info.palAddr > 13
    /\ palette = ColorTable(info.palBits, 1)

\* C11, the rule: when lzw_decode receives a data code while prev_code is
\* not NIL, it appends one entry and emits the entry of the code: for a code
\* equal to the dictionary length (KwKwK) the new entry is prev_entry ++
\* first_byte(prev_entry) and it is the one emitted; for a code below the
\* dictionary length the new entry is prev_entry ++ first_byte(entry(code))
\* and entry(code) is emitted.
KwKwKRule ==
    (pc = "lzw_body" /\ pc' = "lzw_next" /\ gen.yieldPrev # None
     /\ IsDataCode(gen.code, info.lzwPalBits)) =>
        LET dictLength == Len(dec.lzwDict)
            prevEntry == EntryBytes(dec.lzwDict, gen.yieldPrev)
            added == EntryBytes(dec'.lzwDict, dictLength)
        IN  /\ Len(dec'.lzwDict) = dictLength + 1
            /\ gen.code = dictLength =>
                  /\ added = Append(prevEntry, prevEntry[1])
                  /\ dec'.imageData = dec.imageData \o added
            /\ gen.code < dictLength =>
                  /\ added = Append(prevEntry,
                                    EntryBytes(dec.lzwDict, gen.code)[1])
                  /\ dec'.imageData = dec.imageData
                                      \o EntryBytes(dec.lzwDict, gen.code)

\* the decode of the LZW data has started on lzw at bit depth 2
Decoding(lzw) ==
    /\ Last(stages) = "d" /\ pc \in {"lzw_next", "lzw_body"}
    /\ lzwData = lzw /\ info.lzwPalBits = 2

\* C11 as claimed: the rule, and the LZW bytes 8c 2d 01 with
\* lzw_min_code_size 2 decode to the indices 1, 1, 1, 1, 1, 2.
C11_KwKwK ==
    [][/\ KwKwKRule
       /\ Decoding(<<140, 45, 1>>) =>
             /\ pc' # "failed"
             /\ pc' = "check_index" => dec.imageData = <<1, 1, 1, 1, 1, 2>>]_vars

\* C11 amended: the rule, and the LZW bytes 8c 2d 05 (CLEAR, 1, 6, 6, 2,
\* END) with lzw_min_code_size 2 decode to the indices 1, 1, 1, 1, 1, 2; the
\* bytes 8c 2d 01 hold no END code: their decode yields these six indices,
\* then 1 and 0, and fails with Truncated.
C11_KwKwKWithEnd ==
    [][/\ KwKwKRule
       /\ Decoding(<<140, 45, 5>>) =>
             /\ pc' # "failed"
             /\ pc' = "check_index" => dec.imageData = <<1, 1, 1, 1, 1, 2>>
       /\ Decoding(<<140, 45, 1>>) =>
             /\ pc' # "check_index"
             /\ pc' = "failed" =>
                   /\ err' = Truncated
                   /\ dec.imageData = <<1, 1, 1, 1, 1, 2, 1, 0>>]_vars

\* C11: the example with the END code has been decoded, its KwKwK codes
\* among the codes received
C11_ExampleDecoded ==
    /\ Last(stages) = "d" /\ pc = "done" /\ lzwData = <<140, 45, 5>>
    /\ imageData = <<1, 1, 1, 1, 1, 2>> /\ Len(rawOut) = 18

\* C11: the example as published has failed after its eight pixels
C11_PublishedExampleFails ==
    /\ Last(stages) = "d" /\ pc = "failed" /\ err = Truncated
    /\ lzwData = <<140, 45, 1>>
    /\ dec.imageData = <<1, 1, 1, 1, 1, 2, 1, 0>>

\* row r (from 0) of an image of the given width
RowOf(image, w, r) == SubSeq(image, r * w + 1, (r + 1) * w)

\* C12: deinterlace_image, given H >= 1 rows of W >= 1 pixels stored in
\* pass order, yields the rows in natural order: stored row k becomes row
\* PassOrder(H)[k]; the pass order is a permutation of 0..H-1, so that every
\* stored row is used exactly once and no row index >= H is read; the
\* image keeps its H * W pixels.
C12_Deinterlace ==
    [][pc = "deinterlace" =>
         LET w == info.width
             h == Len(imageData) \div w
         IN  /\ Len(PassOrder(h)) = h
             /\ {PassOrder(h)[k] : k \in 1..h} = 0..(h - 1)
             /\ Len(imageData') = h * w
             /\ \A k \in 0..(h - 1) :
                   RowOf(imageData', w, PassOrder(h)[k + 1])
                       = RowOf(imageData, w, k)]_vars

\* C12: an interlaced image of 9 rows of 2 pixels, a height that is no
\* multiple of 8, has been put in natural order
C12_NineRowsRestored ==
    /\ Last(stages) = "d" /\ pc = "write" /\ info.interlace
    /\ info.width = 2 /\ info.height = 9
    /\ imageData = [k \in 1..18 |-> (k - 1) \div 2]
    /\ dec.imageData = <<0, 0, 8, 8, 4, 4, 2, 2, 6, 6, 1, 1, 3, 3, 5, 5, 7, 7>>

(***************************************************************************)
(* Single runs of main() that fill the LZW dictionary.  The image has 256  *)
(* colours and no pair of neighbouring pixels comes twice, so that every   *)
(* code stands for one pixel and every code but the last adds an entry.    *)
(* The runs are taken up Margin codes before the dictionary is full: the   *)
(* initial states are the states encode_gif and decode_gif are in at that  *)
(* point, computed with the operators the actions apply.                   *)
(***************************************************************************)
\* pixels after the one at which the dictionary is full
ExtraPixels == 2

\* codes between the initial states and the full dictionary
Margin == 8

\* the palette bit depth of the images of 256 colours
FullPalBits == 8

\* pixel k of the image: row k \div 256 counts in steps of an odd number
SatPixel(k) == ((k % 256) * (2 * (k \div 256) + 1)) % 256

\* the number of pixels whose codes fill the dictionary (gif.py 455)
FullAt == Pow2(MaxCodeLen) - 2 - Pow2(FullPalBits) + 1

\* the raw RGB file of the first n pixels; colour i is RampColor(i)
SatRaw(n) ==
    [i \in 1..(3 * n) |-> IF i % 3 = 1 THEN SatPixel((i - 1) \div 3) ELSE 0]

\* gif.py 481-492: count turns of the for loop of lzw_codes_to_bytes from
\* s = [enc, pack], as EncLzwCode takes them one by one
RECURSIVE EncodeCodes(_, _, _, _, _)
EncodeCodes(s, palBits, indexed, dictReset, count) ==
    IF count = 0 THEN s
    ELSE IF count = 1
    THEN LET e == lzw_encode(s.enc, palBits, indexed, dictReset)
         IN  [enc |-> e,
              pack |-> IF e.at = "finished" THEN s.pack
                       ELSE PackCode(s.pack, e.yieldCode, e.yieldLen)]
    ELSE LET half == EncodeCodes(s, palBits, indexed, dictReset,
                                 count \div 2)
         IN  IF half.enc.at = "finished" THEN half
             ELSE EncodeCodes(half, palBits, indexed, dictReset,
                              count - count \div 2)

\* gif.py 298-323: count turns of the for loop of lzw_decode from
\* s = [gen, dec], as LzwNext and LzwBody take them
RECURSIVE DecodeCodes(_, _, _, _)
DecodeCodes(s, palBits, data, count) ==
    IF count = 0 THEN s
    ELSE IF count = 1
    THEN LET g == lzw_bytes_to_codes(data, palBits, s.gen)
         IN  [gen |-> g,
              dec |-> lzw_decode_body(
                          [s.dec EXCEPT !.codeCount = s.dec.codeCount + 1,
                                        !.totalCodeLen =
                                            s.dec.totalCodeLen + g.yieldLen],
                          palBits, g.code, g.yieldPrev)]
    ELSE LET half == DecodeCodes(s, palBits, data, count \div 2)
         IN  IF half.gen.finished \/ half.gen.err # NoError
                \/ half.dec.err # NoError
             THEN half
             ELSE DecodeCodes(half, palBits, data, count - count \div 2)

\* the file encode_gif writes for the first n pixels
SatGif(n, dictReset) ==
    LET rgb == SatRaw(n)
        pal == get_palette_from_raw_image(rgb).palette
        indexed == raw_image_to_indexed(rgb, pal)
        all == EncodeCodes([enc |-> EncStart(FullPalBits), pack |-> PackStart],
                           FullPalBits, indexed, dictReset, n + 4)
    IN  write_gif(n, 1, pal, Flush(all.pack))

\* the images and the settings of the runs
FullRuns ==
    {[n |-> FullAt, noDictReset |-> FALSE]}
    \cup {[n |-> FullAt + ExtraPixels, noDictReset |-> b] : b \in BOOLEAN}

\* encode_gif in lzw_codes_to_bytes, FullAt - Margin codes packed
InitFullEncode ==
    \E run \in FullRuns :
       /\ raw = SatRaw(run.n) /\ width = run.n
       /\ noDictReset = run.noDictReset
       /\ file = << >>
       /\ stages = <<"e">> /\ pc = "lzw_encode"
       /\ err = NoError /\ rawOut = << >> /\ gifOut = << >>
       /\ info = NoGif(NoError) /\ lzwData = << >>
       /\ gen = GenStart(2) /\ dec = DecodeStart(2)
       /\ height = 1
       /\ palette = get_palette_from_raw_image(raw).palette
       /\ imageData = raw_image_to_indexed(raw, palette)
       /\ LET s == EncodeCodes([enc |-> EncStart(FullPalBits),
                                pack |-> PackStart],
                               FullPalBits, imageData, noDictReset,
                               FullAt - Margin)
          IN  enc = s.enc /\ pack = s.pack

\* decode_gif in lzw_decode, FullAt - Margin codes decoded
InitFullDecode ==
    \E run \in FullRuns :
       /\ file = SatGif(run.n, run.noDictReset)
       /\ raw = << >> /\ width = 1 /\ noDictReset = FALSE
       /\ stages = <<"d">> /\ pc = "lzw_next"
       /\ err = NoError /\ rawOut = << >> /\ gifOut = << >>
       /\ imageData = << >>
       /\ height = 0 /\ enc = EncStart(2) /\ pack = PackStart
       /\ info = read_gif(file)
       /\ palette = read_bytes(file, info.palAddr,
                               Pow2(info.palBits) * 3).bytes
       /\ lzwData = read_subblocks(file, info.lzwAddr).bytes
       /\ LET s == DecodeCodes([gen |-> GenStart(info.lzwPalBits),
                                dec |-> DecodeStart(info.lzwPalBits)],
                               info.lzwPalBits, lzwData, FullAt - Margin)
          IN  gen = s.gen /\ dec = s.dec

InitFull == Init \/ InitFullEncode \/ InitFullDecode

\* one run of main(): Next without the start of another run
OneRun ==
    \/ DecReadGif \/ DecReadPalette \/ DecReadSubblocks
    \/ LzwNext \/ LzwBody
    \/ DecCheckIndex \/ DecDeinterlace \/ DecWritePixel \/ DecReturn
    \/ EncCheckSize \/ EncGetPalette \/ EncToIndexed \/ EncLzwCode
    \/ EncWriteGif

FullSpec == InitFull /\ [][OneRun]_vars

(***************************************************************************)
(* Properties of the runs that fill the dictionary (FullSpec).             *)
(***************************************************************************)
\* the step of EncLzwCode that has just been taken yielded code
Emits(code) == enc'.at # "finished" /\ enc'.yieldCode = code

\* the last code lzw_encode yielded is code
Emitted(code) ==
    pc = "lzw_encode" /\ enc.at \notin {"start", "finished"}
    /\ enc.yieldCode = code

\* the dictionary of lzw_encode holds 4094 entries
EncDictFull == DictLen(enc.lzwDict) = 4094

\* pixels remain after the code lzw_encode yielded last
InputRemains == enc.pos + enc.entryLen < Len(imageData)

\* C13: the first code lzw_encode yields is CLEAR; after it a CLEAR is
\* yielded exactly when the code before it was a data code, no_dict_reset is
\* false, the dictionary holds 4094 entries and pixels remain; the code
\* that follows a CLEAR is yielded with p+1 bits from the dictionary of the
\* 2^p roots, so END follows a CLEAR only in the stream of the empty image;
\* and with no_dict_reset a dictionary of 4094 entries never changes.
C13_Saturation ==
    [][pc = "lzw_encode" =>
         /\ enc.at = "start" => Emits(clearCode(EncPalBits))
         /\ enc.at # "start" =>
               (Emits(clearCode(EncPalBits))
                <=> /\ Emitted(enc.code) /\ enc.code # clearCode(EncPalBits)
                    /\ ~noDictReset /\ EncDictFull /\ InputRemains)
         /\ (Emitted(clearCode(EncPalBits)) /\ enc'.at # "finished") =>
               /\ enc'.yieldLen = EncPalBits + 1
               /\ enc'.lzwDict = RootDict(EncPalBits)
               /\ Emits(endCode(EncPalBits)) => imageData = << >>
         /\ (noDictReset /\ EncDictFull) => enc'.lzwDict = enc.lzwDict
      ]_vars

\* the CLEAR lzw_encode yields when the dictionary is full
C13_ClearOnFull ==
    /\ Emitted(clearCode(EncPalBits)) /\ pack.codeCount > 1
    /\ EncDictFull /\ ~noDictReset

\* the image ends where the dictionary is full: END follows the data code
C13_NoTrailingClear ==
    /\ Emitted(endCode(EncPalBits)) /\ EncDictFull /\ ~noDictReset
    /\ Len(imageData) = FullAt

\* with no_dict_reset data codes go on after the dictionary is full
C13_FrozenDictionary ==
    /\ Emitted(endCode(EncPalBits)) /\ EncDictFull /\ noDictReset
    /\ Len(imageData) > FullAt

\* widths and heights at the edges of the range of write_gif
EdgeSizes == {1, 255, 256, 65535}

\* the least k with 2^k >= n, for n in 1..256
CeilLog2(n) == CHOOSE k \in 0..8 : Pow2(k) >= n /\ \A j \in 0..(k - 1) : Pow2(j) < n

\* what read_gif and read_subblocks make of the file write_gif writes
ParsesBack(w, h, pal, payload) ==
    LET written == write_gif(w, h, pal, payload)
        got == read_gif(written)
        n == Len(pal) \div 3
        bits == Max(1, CeilLog2(n))
        gct == read_bytes(written, 13, Pow2(bits) * 3)
        chain == read_subblocks(written, got.lzwAddr)
    IN  /\ got.err = NoError
        /\ got.width = w /\ got.height = h /\ got.interlace = FALSE
        /\ got.palAddr = 13 /\ got.palBits = bits
        /\ got.lzwPalBits = Max(2, bits)
        /\ gct.err = NoError
        /\ gct.bytes = pal \o [i \in 1..(Pow2(bits) * 3 - Len(pal)) |-> 0]
        /\ gct.pos = got.lzwAddr - 11
        /\ chain.err = NoError /\ chain.bytes = payload

\* C14: for every width and height, the palette and the LZW data that
\* encode_gif hands to write_gif, read_gif accepts the file written and
\* returns the width, the height, no interlacing, palette address 13,
\* palette bits max(1, ceil(log2 n)) and LZW palette bits max(2, palette
\* bits); the Global Color Table is the palette padded with zeros to
\* 2^bits colours and ends where the Image Descriptor starts; and
\* read_subblocks returns the LZW data.
C14_ParsesBack ==
    pc = "write_gif" =>
       \A w \in EdgeSizes, h \in EdgeSizes :
          ParsesBack(w, h, palette, lzwData)

\* a file written with LZW data of more than one subblock
C14_TwoSubblocksWritten ==
    /\ pc = "done" /\ Last(stages) = "e"
    /\ Len(lzwData) > MaxSubblock
    /\ ParsesBack(width, height, palette, lzwData)
    /\ gifOut = write_gif(width, height, palette, lzwData)

\* a file written with a palette of 17 colours, padded to 32
C14_PaddedTable ==
    /\ pc = "done" /\ Last(stages) = "e"
    /\ Len(palette) \div 3 = 17
    /\ ParsesBack(width, height, palette, lzwData)
    /\ gifOut = write_gif(width, height, palette, lzwData)

\* C15: when decode_gif returns, the indexed image has width * height
\* bytes and the raw RGB file written has 3 * width * height bytes, for the
\* width and the height of the first Image Descriptor.
C15_DecodedSize ==
    (pc = "done" /\ Last(stages) = "d") =>
       /\ Len(imageData) = info.width * info.height
       /\ Len(rawOut) = 3 * info.width * info.height

\* decode_gif has returned an image with fewer pixels than the Image
\* Descriptor declares
C15_ShortImageReturned ==
    /\ pc = "done" /\ stages = <<"d">>
    /\ Len(imageData) < info.width * info.height
    /\ Len(rawOut) = 3 * Len(imageData)

\* the number of bits of the k-th code lzw_encode yielded for the image
\* that encode_gif has just written
WrittenWidth(k) ==
    EncodeCodes([enc |-> EncStart(info.lzwPalBits), pack |-> PackStart],
                info.lzwPalBits, imageData, noDictReset, k).enc.yieldLen

\* decode_gif, on the file encode_gif wrote, is about to read a code
AboutToRead ==
    /\ stages = <<"e", "d">> /\ pc = "lzw_next"
    /\ dec.codeCount < pack.codeCount
    /\ gen.started =>
          LET after == AfterYield(gen, info.lzwPalBits)
          IN  ~after.finished /\ after.err = NoError

\* the number of bits of the code lzw_bytes_to_codes reads next
ReadWidth ==
    IF gen.started THEN AfterYield(gen, info.lzwPalBits).codeLen
    ELSE gen.codeLen

\* C16: when decode_gif reads the file encode_gif wrote, every code, the
\* CLEAR codes and END included, is read with the number of bits it was
\* written with.
C16_WidthsAgree ==
    AboutToRead => ReadWidth = WrittenWidth(dec.codeCount + 1)

\* the END code is about to be read one bit wider than it was written
C16_EndReadWider ==
    /\ AboutToRead /\ dec.codeCount + 1 = pack.codeCount
    /\ enc.yieldCode = endCode(info.lzwPalBits)
    /\ ReadWidth = enc.yieldLen + 1

\* the dictionary of lzw_decode holds 4096 entries
DecDictFull == Len(dec.lzwDict) = 4096

\* C17: lzw_bytes_to_codes reads the first code with p+1 bits; after a data
\* code it reads with one bit more exactly when the dictionary of
\* lzw_decode, after the entry of that code is appended, has 2^codeLen
\* entries and codeLen < 12, and with the same number of bits otherwise;
\* it never reads with more than 12 bits; once the dictionary has 4096
\* entries it reads with 12 bits and lzw_decode adds no entry until a CLEAR;
\* and a CLEAR, also one read with 12 bits, is accepted and followed by a
\* code of p+1 bits.
C17_CodeLenGrowth ==
    [][LET p == info.lzwPalBits
       IN  /\ pc = "lzw_next" =>
                /\ ~gen.started => gen'.codeLen = p + 1
                /\ (gen.started /\ IsDataCode(gen.code, p)
                    /\ gen'.err # BadCode) =>
                      gen'.codeLen =
                         IF Len(dec.lzwDict) = Pow2(gen.codeLen)
                            /\ gen.codeLen < 12
                         THEN gen.codeLen + 1 ELSE gen.codeLen
                /\ (gen.started /\ IsDataCode(gen.code, p) /\ DecDictFull) =>
                      gen'.err # BadCode /\ gen'.codeLen = 12
                /\ (gen.started /\ gen.code = clearCode(p)) =>
                      gen'.err # BadCode /\ gen'.codeLen = p + 1
                /\ gen'.codeLen <= 12
           /\ pc = "lzw_body" =>
                /\ gen.yieldLen <= 12
                /\ (DecDictFull /\ gen.code # clearCode(p)) =>
                      gen.yieldLen = 12 /\ dec'.lzwDict = dec.lzwDict
                /\ gen.code = clearCode(p) => dec'.err = NoError
      ]_vars

\* a CLEAR was read with 12 bits when the dictionary held 4096 entries, and
\* the code after it has been read with p+1 bits
C17_ClearAtTwelveBits ==
    /\ pc = "lzw_body" /\ info.lzwPalBits = FullPalBits
    /\ dec.codeCount = FullAt + 2
    /\ dec.totalCodeLen >= 12 * Pow2(11)
    /\ Len(dec.lzwDict) = Pow2(FullPalBits) + 2
    /\ gen.yieldLen = FullPalBits + 1

\* a data code has been read with 12 bits when the dictionary held 4096
\* entries
C17_ReadAtFullDictionary ==
    /\ pc = "lzw_body" /\ DecDictFull /\ gen.yieldLen = 12
    /\ IsDataCode(gen.code, info.lzwPalBits)

\* the codes have got wider: a code read with p+2 bits
C17_Grown ==
    pc = "lzw_body" /\ gen.yieldLen = info.lzwPalBits + 2

\* C18: the dictionary of lzw_decode always has between 2^p + 2 and 4096
\* entries; when a code is delivered it has as many entries as
\* lzw_bytes_to_codes counts in dictLen; after a CLEAR it has exactly
\* 2^p + 2 entries, the roots and the two reserved codes, so that a code
\* above them that follows the CLEAR is rejected.
C18_DictionaryBound ==
    [][LET p == info.lzwPalBits
       IN  /\ pc \in {"lzw_next", "lzw_body"} =>
                /\ Pow2(p) + 2 <= Len(dec.lzwDict)
                /\ Len(dec.lzwDict) <= 4096
           /\ pc = "lzw_body" =>
                /\ Len(dec.lzwDict) = gen.dictLen
                /\ Pow2(p) + 2 <= Len(dec'.lzwDict)
                /\ Len(dec'.lzwDict) <= 4096
                /\ gen.code = clearCode(p) =>
                      dec'.lzwDict = [c \in 1..(Pow2(p) + 2) |-> <<-1, c - 1>>]
                /\ (gen.yieldPrev = None /\ IsDataCode(gen.code, p)
                    /\ gen.code >= Pow2(p) + 2) =>
                      dec'.err = BadCode
      ]_vars

\* a CLEAR has cut the full dictionary of 4096 entries back to 2^p + 2
C18_FullDictionaryReset ==
    /\ pc = "lzw_next" /\ gen.code = clearCode(info.lzwPalBits)
    /\ gen.dictLen = 4096 /\ gen.yieldLen = 12
    /\ Len(dec.lzwDict) = Pow2(info.lzwPalBits) + 2

\* a code of an entry added before the CLEAR is rejected after it
C18_OldEntryRejected ==
    /\ pc = "failed" /\ err = BadCode /\ dec.err = BadCode
    /\ gen.yieldPrev = None /\ gen.code >= Pow2(info.lzwPalBits) + 2
    /\ dec.codeCount > 2

\* the codes of the entries of the dictionary of lzw_encode
AssignedCodes == {enc.lzwDict[entry] : entry \in DOMAIN enc.lzwDict}

\* the codes of the dictionary are the roots and, without a gap, the codes
\* from 2^p + 2 on, none of them above last
CodesUpTo(last) ==
    LET p == EncPalBits
        n == DictLen(enc.lzwDict)
    IN  /\ AssignedCodes = (0..(Pow2(p) - 1)) \cup ((Pow2(p) + 2)..(n + 1))
        /\ \A entry \in DOMAIN enc.lzwDict :
              (Len(entry) > 1) = (enc.lzwDict[entry] >= Pow2(p) + 2)
        /\ n + 1 <= last

\* C19 as stated: lzw_encode gives new entries the codes 2^p + 2,
\* 2^p + 3, ..., never CLEAR or END, and no code above 4094, so that the
\* dictionary length + 2 stays below 4096.
C19_CodeAssignment ==
    pc = "lzw_encode" =>
       CodesUpTo(4094) /\ DictLen(enc.lzwDict) + 2 < 4096

\* C19: lzw_encode gives new entries the codes 2^p + 2, 2^p + 3, ...,
\* never CLEAR or END, and no code above 4095: the dictionary length + 2
\* grows to 4096 and not beyond.
C19_CodeAssignmentTo4095 ==
    pc = "lzw_encode" =>
       CodesUpTo(4095) /\ DictLen(enc.lzwDict) + 2 <= 4096

\* lzw_encode has given an entry the code 4095
C19_Code4095Assigned ==
    /\ pc = "lzw_encode" /\ 4095 \in AssignedCodes
    /\ DictLen(enc.lzwDict) + 2 = 4096

\* C20: every code lzw_encode yields has at most 12 bits and is smaller
\* than 2^bits; the first code and the code after a CLEAR have p+1 bits;
\* the code after a data code has one bit more than that data code exactly
\* when an entry was added in between that brought the dictionary, with the
\* two reserved codes, to 2^bits + 1 codes, and the same number of bits
\* otherwise, so that between two CLEAR codes the number of bits never
\* goes down.
C20_EncoderWidths ==
    [][(pc = "lzw_encode" /\ enc'.at # "finished") =>
         LET p == EncPalBits
             added == DictLen(enc'.lzwDict) = DictLen(enc.lzwDict) + 1
         IN  /\ enc'.yieldLen <= 12
             /\ enc'.yieldCode < Pow2(enc'.yieldLen)
             /\ (enc.at = "start" \/ Emitted(clearCode(p))) =>
                   enc'.yieldLen = p + 1
             /\ (Emitted(enc.code) /\ enc.code # clearCode(p)) =>
                   /\ added \/ enc'.lzwDict = enc.lzwDict
                   /\ enc'.yieldLen =
                         IF added /\ DictLen(enc'.lzwDict) + 2
                                     = Pow2(enc.yieldLen) + 1
                         THEN enc.yieldLen + 1 ELSE enc.yieldLen
      ]_vars

\* the codes have got wider: a data code of p+2 bits, yielded when the
\* dictionary, with the two reserved codes, has more than 2^(p+1) codes
C20_Grown ==
    /\ pc = "lzw_encode" /\ Emitted(enc.code)
    /\ enc.yieldLen = EncPalBits + 2
    /\ DictLen(enc.lzwDict) + 2 > Pow2(EncPalBits + 1)

\* a data code of 12 bits yielded from the full dictionary
C20_TwelveBitsAtFull ==
    /\ pc = "lzw_encode" /\ Emitted(enc.code) /\ EncDictFull
    /\ enc.yieldLen = 12 /\ enc.pos >= FullAt

(***************************************************************************)
(* Properties of the encoder's match, the bit packing, the subblocks, the  *)
(* termination of decode_gif and the palette.                              *)
(***************************************************************************)
\* the lengths n for which imageData[pos:pos+n] is an entry of lzwDict
EntryLengths(lzwDict, indexed, pos) ==
    {n \in 1..(Len(indexed) - pos) :
        SubSeq(indexed, pos + 1, pos + n) \in DOMAIN lzwDict}

\* the largest member of a non-empty set of numbers
Largest(S) == CHOOSE n \in S : \A m \in S : m <= n

\* C21: the first code lzw_encode yields is CLEAR and the last is END; a
\* data code yielded at position pos is the code of the longest entry of
\* the dictionary that is a prefix of imageData[pos:]; pos starts at 0,
\* moves on by the length of that entry and is at the end of imageData
\* when END is yielded, so the entries of the data codes make up imageData;
\* the code after a CLEAR is a root or END; the empty image gives CLEAR,
\* END.
C21_GreedyMatch ==
    [][pc = "lzw_encode" =>
         LET p == EncPalBits
         IN  /\ enc.at = "start" =>
                   Emits(clearCode(p)) /\ enc'.pos = 0
             /\ enc'.at = "finished" => Emitted(endCode(p))
             /\ Emits(endCode(p)) => enc'.pos = Len(imageData)
             /\ (enc'.at # "finished" /\ IsDataCode(enc'.yieldCode, p)) =>
                   LET lengths == EntryLengths(enc'.lzwDict, imageData,
                                               enc'.pos)
                   IN  /\ lengths # {}
                       /\ enc'.entryLen = Largest(lengths)
                       /\ enc'.yieldCode =
                             enc'.lzwDict[SubSeq(imageData, enc'.pos + 1,
                                                 enc'.pos + enc'.entryLen)]
                       /\ enc'.pos = IF Emitted(enc.code)
                                        /\ enc.code # clearCode(p)
                                     THEN enc.pos + enc.entryLen
                                     ELSE enc.pos
             /\ (Emitted(enc.code) /\ enc.code # clearCode(p)
                 /\ enc'.at # "finished") =>
                   enc'.pos = enc.pos + enc.entryLen
             /\ (Emitted(clearCode(p)) /\ enc'.at # "finished") =>
                   \/ enc'.yieldCode < Pow2(p)
                   \/ Emits(endCode(p)) /\ imageData = << >>
      ]_vars

\* a data code that stands for three pixels or more has been yielded
C21_LongMatch ==
    /\ pc = "lzw_encode" /\ Emitted(enc.code)
    /\ IsDataCode(enc.code, EncPalBits) /\ enc.entryLen >= 3
    /\ enc.entryLen = Largest(EntryLengths(enc.lzwDict, imageData, enc.pos))

\* bit i of the number n
Bit(n, i) == (n \div Pow2(i)) % 2

\* bit j of a byte stream: bit j mod 8 of byte j div 8
BitOfBytes(bytes, j) == Bit(bytes[j \div 8 + 1], j % 8)

\* bit j of what lzw_codes_to_bytes holds: the bytes it has stored, then
\* the bits that wait in data
BitPacked(b, j) ==
    IF j \div 8 < Len(b.dataBytes) THEN BitOfBytes(b.dataBytes, j)
    ELSE Bit(b.data, j - 8 * Len(b.dataBytes))

\* the code the bit reader finds at stream bit offset with codeLen bits
CodeReadAt(bytes, offset, codeLen) ==
    ReadCode(bytes, [GenStart(2) EXCEPT !.pos = offset \div 8,
                                        !.bitPos = offset % 8,
                                        !.codeLen = codeLen])

\* C22: lzw_codes_to_bytes stores bit i of a code at the stream bit
\* position (sum of the numbers of bits of the earlier codes) + i, where
\* stream bit j is bit j mod 8 of byte j div 8, and leaves the earlier bits
\* as they are; the bytes it returns are ceil(total bits / 8) bytes whose
\* bits above the total are 0; and the bit reader of lzw_bytes_to_codes,
\* set to the position and the number of bits of the code, reads the code
\* back and moves on by its number of bits.
C22_BitPacking ==
    [][pc = "lzw_encode" =>
         LET before == pack.totalCodeLen
         IN  /\ Len(pack.dataBytes) = before \div 8
             /\ pack.dataLen = before % 8
             /\ pack.data < Pow2(pack.dataLen)
             /\ enc'.at # "finished" =>
                   LET code == enc'.yieldCode
                       codeLen == enc'.yieldLen
                       bytes == Flush(pack')
                       got == CodeReadAt(bytes, before, codeLen)
                   IN  /\ pack'.totalCodeLen = before + codeLen
                       /\ pack'.codeCount = pack.codeCount + 1
                       /\ \A i \in 0..(codeLen - 1) :
                             BitPacked(pack', before + i) = Bit(code, i)
                       /\ \A j \in 0..(before - 1) :
                             BitPacked(pack', j) = BitPacked(pack, j)
                       /\ got.err = NoError /\ got.code = code
                       /\ 8 * got.pos + got.bitPos = before + codeLen
             /\ enc'.at = "finished" =>
                   /\ Len(lzwData') = (before + 7) \div 8
                   /\ \A j \in 0..(8 * Len(lzwData') - 1) :
                         BitOfBytes(lzwData', j) =
                            IF j < before THEN BitPacked(pack, j) ELSE 0
      ]_vars

\* a code has been stored across the end of a byte, with bits set in both
\* bytes
C22_CodeAcrossBytes ==
    /\ pc = "lzw_encode" /\ Emitted(enc.yieldCode)
    /\ LET offset == pack.totalCodeLen - enc.yieldLen
           low == 8 - (offset % 8)
       IN  /\ low < enc.yieldLen
           /\ enc.yieldCode % Pow2(low) # 0
           /\ enc.yieldCode \div Pow2(low) # 0
           /\ CodeReadAt(Flush(pack), offset, enc.yieldLen).code
                 = enc.yieldCode

\* the bytes returned end with a byte that is filled in part
C22_LastByteInPart ==
    /\ pc = "write_gif" /\ pack.totalCodeLen % 8 # 0
    /\ Len(lzwData) = pack.totalCodeLen \div 8 + 1
    /\ lzwData[Len(lzwData)] < Pow2(pack.totalCodeLen % 8)

\* the lengths of the payloads: none, one chunk, one chunk and a byte, two
\* chunks, and the lengths next to them
PayloadSizes == {0, 1, 254, 255, 256, 257, 509, 510, 511}

\* a payload of n bytes: the LZW data, repeated as often as needed
Payload(n) == [i \in 1..n |-> lzwData[((i - 1) % Len(lzwData)) + 1]]

\* the number of chunks of a payload of n bytes
ChunkCount(n) == (n + MaxSubblock - 1) \div MaxSubblock

\* the chain is the payload in chunks of 255 bytes, the last one shorter,
\* each after its size byte, and a 0 byte; read_subblocks returns the
\* payload and stops behind the 0 byte, whatever follows it
SubblockRoundTrip(payload) ==
    LET n == Len(payload)
        chain == WriteSubblocks(payload, 0) \o <<0>>
    IN  /\ Len(chain) = n + ChunkCount(n) + 1
        /\ chain[Len(chain)] = 0
        /\ \A k \in 0..(ChunkCount(n) - 1) :
              LET size == chain[k * (MaxSubblock + 1) + 1]
              IN  /\ 1 <= size /\ size <= 255
                  /\ size = IF k < ChunkCount(n) - 1 THEN 255
                            ELSE n - k * MaxSubblock
                  /\ \A j \in 1..size :
                        chain[k * (MaxSubblock + 1) + 1 + j]
                           = payload[k * MaxSubblock + j]
        /\ \A rest \in {<< >>, <<Semicolon>>, <<1, 7>>, <<255>>} :
              LET got == read_subblocks(chain \o rest, 0)
              IN  /\ got.err = NoError
                  /\ got.bytes = payload
                  /\ got.pos = Len(chain)

\* C23: for the LZW data write_gif is given, and for payloads of 0 to 511
\* bytes made of it, the chain of subblocks is chunks with size bytes in
\* 1..255, all 255 but the last, and one 0 byte; read_subblocks returns the
\* payload and its position is then just behind that 0 byte; in the file
\* written the chain ends just before the Trailer.
C23_SubblockRoundTrip ==
    pc = "write_gif" =>
       /\ SubblockRoundTrip(lzwData)
       /\ \A n \in PayloadSizes : SubblockRoundTrip(Payload(n))
       /\ LET written == write_gif(width, height, palette, lzwData)
              start == Len(written) - 1 - (Len(lzwData)
                                           + ChunkCount(Len(lzwData)) + 1)
          IN  /\ Slice(written, start, Len(written) - 1)
                    = WriteSubblocks(lzwData, 0) \o <<0>>
              /\ read_subblocks(written, start).pos = Len(written) - 1
              /\ written[Len(written)] = Semicolon

\* a file has been written whose LZW data takes a chunk of 255 bytes and a
\* shorter one
C23_TwoChunksWritten ==
    /\ pc = "done" /\ Last(stages) = "e"
    /\ Len(lzwData) > MaxSubblock /\ Len(lzwData) < 2 * MaxSubblock
    /\ LET start == Len(gifOut) - Len(lzwData) - 4
           got == read_subblocks(gifOut, start)
       IN  /\ gifOut[start + 1] = 255
           /\ gifOut[start + 257] = Len(lzwData) - 255
           /\ got.bytes = lzwData /\ got.pos = Len(gifOut) - 1

\* a run of main() that has not ended
Running == pc \notin {"done", "failed"}

\* the run is ended by an exception at the statement it is at
Raised ==
    /\ pc' = "failed"
    /\ UNCHANGED <<argVars, encVars, decVars, err, rawOut, gifOut, palette,
                   lzwData, imageData>>

\* The interpreter executes a run to its end: it does not stop for good at
\* a statement of a run that has not ended.  Every statement completes or
\* raises, so that a step is possible as long as the run has not ended (no
\* state of Spec with Running is without a successor); the condition says
\* so with Raised, whose enabling needs no evaluation of the statement.
\* The steps themselves are those of Next.
Executes == Running /\ (Raised \/ Next)

LiveSpec == Init /\ [][Next]_vars /\ WF_vars(Executes)

\* a result of the file access that is either good or Truncated, and that,
\* when good, has moved from pos to a position of the file behind pos
MovedOn(got, pos) ==
    /\ got.err \in {NoError, Truncated}
    /\ got.err = NoError => (pos < got.pos /\ got.pos <= Len(file))

\* the loops of the parser, started at any position of the file: each turn
\* of the loop of skip_subblocks and of read_subblocks and each turn of the
\* block loop that goes on to another turn has moved the position forward;
\* a read at the end of the file fails with Truncated, and so does the
\* loop in which a skip has moved the position behind the end of the file
ParserMovesOn ==
    \A pos \in 0..Len(file) :
       LET first == read_bytes(file, pos, 1)
       IN  /\ first.err = (IF pos = Len(file) THEN Truncated ELSE NoError)
           /\ MovedOn(skip_subblocks(file, pos), pos)
           /\ MovedOn(read_subblocks(file, pos), pos)
           /\ (first.err = NoError /\ first.bytes[1] # 0) =>
                 LET skipped == skip_bytes(file, first.pos, first.bytes[1])
                     chunk == read_bytes(file, first.pos, first.bytes[1] + 1)
                 IN  /\ skipped.err = NoError /\ skipped.pos > first.pos
                     /\ skipped.pos >= Len(file) =>
                           skip_subblocks(file, pos).err = Truncated
                     /\ chunk.err = NoError => chunk.pos > first.pos
                     /\ chunk.err # NoError =>
                           read_subblocks(file, pos).err = Truncated
           /\ (first.err = NoError /\ first.bytes[1] = Bang) =>
                 LET ext == skip_extension_block(file, first.pos)
                 IN  /\ ext.err \in {NoError, Truncated, BadExtension}
                     /\ ext.err = NoError =>
                           (first.pos < ext.pos /\ ext.pos <= Len(file))

\* the number of bits lzw_bytes_to_codes has read
BitsRead(g) == 8 * g.pos + g.bitPos

\* C24: decode_gif, once started, ends with a result or an error.  In the
\* file every turn of the block loop, of the skipping and of the reading
\* of subblocks moves the position forward by a byte or more, or fails
\* with Truncated, also after a skip behind the end of the file; every
\* turn of the loop of the LZW codes reads 3 bits or more of the LZW data,
\* or ends the loop (END, an invalid code, Truncated); every turn of the
\* loop that writes the pixels writes one pixel.
C24_Terminates ==
    /\ [](pc = "decode_gif" => ParserMovesOn)
    /\ [][pc = "lzw_next" =>
            \/ gen'.finished
            \/ gen'.err = BadCode
            \/ gen'.err = Truncated /\ BitsRead(gen') = BitsRead(gen)
            \/ /\ gen'.err = NoError
               /\ BitsRead(gen') >= BitsRead(gen) + 3
               /\ BitsRead(gen') <= 8 * Len(lzwData)
         ]_vars
    /\ [][pc = "write" =>
            \/ pc' \in {"done", "failed"}
            \/ Len(rawOut') = Len(rawOut) + 3 /\ Written' <= Len(imageData)
         ]_vars
    /\ (pc = "decode_gif") ~> (pc \in {"done", "failed"})

\* decode_gif has failed with Truncated on a file that ends inside the
\* block of a Graphic Control Extension: the skip of the block has moved
\* the position behind the end of the file
C24_SkippedBehindEnd ==
    /\ stages = <<"d">> /\ pc = "failed" /\ err = Truncated
    /\ HasGifHeader /\ Len(file) >= FirstBlock(file) + 3
    /\ file[FirstBlock(file) + 1] = Bang
    /\ file[FirstBlock(file) + 2] = 249
    /\ skip_bytes(file, FirstBlock(file) + 3,
                  file[FirstBlock(file) + 3]).pos > Len(file)

\* decode_gif has returned after the loop of the LZW codes has read more
\* than one subblock of data
C24_LongDataDecoded ==
    /\ pc = "done" /\ Last(stages) = "d" /\ gen.finished
    /\ BitsRead(gen) > 8 * MaxSubblock /\ Written = Len(imageData)


\* the three bytes of a colour read as one number: byte strings of length 3
\* are in ascending order when these numbers are
TripleValue(color) == (color[1] * 256 + color[2]) * 256 + color[3]

\* pal holds every colour of the raster, and no other, once each, in
\* ascending order of the byte strings
IsPaletteOf(pal, rawData) ==
    LET count == Cardinality(ColorsOf(rawData))
    IN  /\ Len(pal) = 3 * count
        /\ \A i \in 0..(count - 1) : PaletteEntry(pal, i) \in ColorsOf(rawData)
        /\ \A i \in 1..(count - 1) :
              TripleValue(PaletteEntry(pal, i - 1))
                  < TripleValue(PaletteEntry(pal, i))

\* the raster with its pixels in the opposite order
MirrorPixels(rawData) ==
    LET pixelCount == Len(rawData) \div 3
    IN  [k \in 1..(3 * pixelCount) |->
            rawData[3 * (pixelCount - 1 - ((k - 1) \div 3)) + ((k - 1) % 3) + 1]]

\* rasters of up to three pixels whose colours differ in the first, in the
\* second or in the third byte only
OrderColors == {<<0, 0, 1>>, <<0, 1, 0>>, <<1, 0, 0>>, <<0, 0, 255>>}
OrderRasters ==
    {Flatten(px, 3) : px \in SeqsUpTo(OrderColors, 3) \ {<< >>}}

\* what get_palette_from_raw_image and raw_image_to_indexed make of
\* rawData: the palette of its colours, and for every pixel the index of
\* its colour
PaletteAndIndexesOf(rawData) ==
    LET got == get_palette_from_raw_image(rawData)
        indexed == raw_image_to_indexed(rawData, got.palette)
    IN  /\ got.err = NoError
        /\ IsPaletteOf(got.palette, rawData)
        /\ \A k \in 1..(Len(rawData) \div 3) :
              /\ indexed[k] \in 0..(Len(got.palette) \div 3 - 1)
              /\ PaletteEntry(got.palette, indexed[k]) = RawPixel(rawData, k - 1)

\* C25: for a raster of at most 256 colours get_palette_from_raw_image
\* returns every colour of the raster once, in ascending order of the byte
\* strings, and the same palette for the same pixels in another order; a
\* raster of more than 256 colours fails with TooManyColors.  Then
\* raw_image_to_indexed gives every pixel an index in 0..N-1, and the entry
\* of the palette at that index is the pixel.  The same holds of the
\* rasters of OrderRasters, whose colours differ in one byte only.
C25_PaletteAndIndexes ==
    [][/\ pc = "get_palette" =>
            IF Cardinality(ColorsOf(raw)) > MaxPaletteSize
            THEN pc' = "failed" /\ err' = TooManyColors
            ELSE /\ pc' = "to_indexed"
                 /\ IsPaletteOf(palette', raw)
                 /\ \A r \in OrderRasters : PaletteAndIndexesOf(r)
                 /\ get_palette_from_raw_image(MirrorPixels(raw))
                        = [err |-> NoError, palette |-> palette']
       /\ pc = "to_indexed" =>
            /\ pc' = "lzw_encode"
            /\ Len(imageData') = Len(raw) \div 3
            /\ \A k \in 1..Len(imageData') :
                  /\ imageData'[k] \in 0..(Len(palette) \div 3 - 1)
                  /\ PaletteEntry(palette, imageData'[k]) = RawPixel(raw, k - 1)
      ]_vars

\* the pixels of a raster of two colours have got their indexes, and the
\* first pixel is of the colour that is second in the palette
C25_SecondColorFirst ==
    /\ stages = <<"e">> /\ pc = "lzw_encode"
    /\ Len(palette) = 6 /\ Len(imageData) >= 2
    /\ imageData[1] = 1 /\ imageData[2] = 0
    /\ RawPixel(raw, 0) = PaletteEntry(palette, 1)
    /\ RawPixel(raw, 1) = PaletteEntry(palette, 0)

\* the pixels of a raster of 256 colours have got their indexes; the last
\* pixel is of the colour that is second in the palette
C25_FullPaletteIndexed ==
    /\ stages = <<"e">> /\ pc = "lzw_encode"
    /\ Len(palette) = 3 * MaxPaletteSize
    /\ imageData[Len(imageData)] = MaxPaletteSize - 1
=============================================================================
